---- MODULE Spec2Model ----
(***************************************************************************)
(* Model of the risk-managed simulation core of quant-demo.                *)
(*                                                                         *)
(* position_manager.py: RiskManager (stop-loss, take-profit with trailing  *)
(* stop, trade recommendation, position size) and the Portfolio ledger     *)
(* (buy, sell, update_positions).                                          *)
(* strategy_ensemble.py: TrendStrategy, MeanReversionStrategy, the         *)
(* advisory LLMStrategy, MarketRegimeDetector and StrategyEnsemble.        *)
(* backtest.py: BacktestEngine.                                            *)
(*                                                                         *)
(* Numbers.  The Python code computes in doubles.  The model computes in   *)
(* exact arithmetic: prices, quantities and cash are integers (every       *)
(* input is an integer, and sums and products of integers stay integers),  *)
(* and every value that comes out of a division or of a decimal literal    *)
(* (avg_cost, the RiskManager percentages, profit ratios) is an exact      *)
(* fraction [n |-> numerator, d |-> denominator], d > 0, in lowest terms.  *)
(* Rounding error of the doubles is outside the model, except where a     *)
(* decision is taken on a sum of decimal literals: the weighted votes are  *)
(* computed as the doubles compute them, and the volatility test, which    *)
(* compares square roots, is decided exactly or the series is left out.    *)
(***************************************************************************)
EXTENDS Integers, Sequences, FiniteSets, TLC

(***************************************************************************)
(* Bounds of the model.                                                    *)
(***************************************************************************)
MaxQty == 2          \* largest quantity passed to buy / sell
InitialBalance == 5  \* Portfolio(initial_balance), scaled to the price grid
MaxHold == 2         \* buys that would lift a holding above this are not explored
MaxDen == 2          \* nor buys that give an average cost a larger denominator
MaxCash == InitialBalance + 1   \* nor sells that lift cash above this

(***************************************************************************)
(* Exact fractions.                                                        *)
(***************************************************************************)
Abs(i) == IF i < 0 THEN -i ELSE i

RECURSIVE GCD(_, _)
GCD(a, b) == IF b = 0 THEN a ELSE GCD(b, a % b)

\* the fraction a / b for integers a, b with b # 0, in lowest terms
Frac(a, b) ==
    LET g == GCD(Abs(a), Abs(b))
        s == IF b < 0 THEN -1 ELSE 1
    IN  [n |-> (s * a) \div g, d |-> (s * b) \div g]

RatOf(i)   == [n |-> i, d |-> 1]
RAdd(x, y) == Frac(x.n * y.d + y.n * x.d, x.d * y.d)
RSub(x, y) == Frac(x.n * y.d - y.n * x.d, x.d * y.d)
RMul(x, y) == Frac(x.n * y.n, x.d * y.d)
RDiv(x, y) == Frac(x.n * y.d, x.d * y.n)          \* y.n # 0
RLe(x, y)  == x.n * y.d <= y.n * x.d
RLt(x, y)  == x.n * y.d < y.n * x.d
RGe(x, y)  == RLe(y, x)
RGt(x, y)  == RLt(y, x)
ROne       == RatOf(1)

(***************************************************************************)
(* Values shared by the operations.                                        *)
(***************************************************************************)
None == "None"                         \* Python None (omitted argument)
ZeroDivisionError == "ZeroDivisionError"

Signals == {"BUY", "SELL", "HOLD"}

(***************************************************************************)
(* RiskManager.__init__: the four thresholds.  DefaultRM is the default    *)
(* argument list; ScenarioRM is the configuration of the trailing-stop     *)
(* scenario (take_profit_pct = 0.20, trailing_stop_pct = 0.08, stop-loss   *)
(* -0.10).                                                                 *)
(***************************************************************************)
DefaultRM ==
    [max_position_pct  |-> Frac(3, 10),
     max_loss_pct      |-> Frac(-7, 100),
     take_profit_pct   |-> Frac(15, 100),
     trailing_stop_pct |-> Frac(5, 100)]

ScenarioRM ==
    [max_position_pct  |-> Frac(3, 10),
     max_loss_pct      |-> Frac(-10, 100),
     take_profit_pct   |-> Frac(20, 100),
     trailing_stop_pct |-> Frac(8, 100)]

RMConfigs == {DefaultRM, ScenarioRM}

VARIABLES
    cash,        \* Portfolio.cash
    positions,   \* Portfolio.positions: code -> Position
    rm,          \* the RiskManager in use (its four thresholds)
    call,        \* the last call made and what it returned
    df,          \* the daily bars in use: the sequence of their closes
    engine       \* the BacktestEngine: its fields and its place in run()

vars == <<cash, positions, rm, call, df, engine>>

Returned(v) == [kind |-> "return", value |-> v]
Raised(e)   == [kind |-> "raise", value |-> e]
NoCall      == [op |-> "none"]
NoBars      == <<>>                    \* no bars loaded
NoEngine    == [pc |-> "none"]         \* no BacktestEngine constructed

(***************************************************************************)
(* RiskManager.check_stop_loss.  entry_price and current_price are exact   *)
(* fractions; entry_price is not zero (a zero entry price raises           *)
(* ZeroDivisionError, which the calling actions model).                    *)
(***************************************************************************)
check_stop_loss(self, entry_price, current_price) ==
    LET loss_pct == RDiv(RSub(current_price, entry_price), entry_price)
    IN  RLe(loss_pct, self.max_loss_pct)

\* a take-profit that sells as soon as the take-profit line is reached
check_take_profit_Immediate(self, entry_price, current_price, highest_price) ==
    LET profit_pct == RDiv(RSub(current_price, entry_price), entry_price)
    IN  RGe(profit_pct, self.take_profit_pct)

(***************************************************************************)
(* RiskManager.check_take_profit.                                          *)
(***************************************************************************)
check_take_profit(self, entry_price, current_price, highest_price) ==
    LET profit_pct == RDiv(RSub(current_price, entry_price), entry_price)
    IN  IF RGe(profit_pct, self.take_profit_pct)
        THEN LET trailing_stop_price ==
                     RMul(highest_price, RSub(ROne, self.trailing_stop_pct))
             IN  RLe(current_price, trailing_stop_price)
        ELSE FALSE

\* a recommendation that passes a BUY signal through
get_trade_recommendation_PassBuy(self, entry_price, current_price, highest_price, signal) ==
    LET trigger_stop_loss   == check_stop_loss(self, entry_price, current_price)
        trigger_take_profit == check_take_profit(self, entry_price, current_price,
                                                 highest_price)
    IN  IF signal = "SELL" \/ trigger_stop_loss
        THEN [action |-> "SELL",
              reason |-> IF trigger_stop_loss THEN "stop_loss" ELSE "signal_sell"]
        ELSE IF trigger_take_profit
        THEN [action |-> "SELL", reason |-> "take_profit"]
        ELSE IF signal = "BUY"
        THEN [action |-> "BUY", reason |-> "hold_wait"]
        ELSE [action |-> "HOLD", reason |-> "watch"]

(***************************************************************************)
(* RiskManager.get_trade_recommendation, for a non-zero entry price.  Of   *)
(* the returned dict the model keeps "action" and the kind of "reason":    *)
(*   "stop_loss"   for the reason text that starts with "zhisun" (stop     *)
(*                 loss),                                                  *)
(*   "signal_sell" for "xinhao zhuankong" (signal turned short),           *)
(*   "take_profit" for "zhiying/zhuizong zhisun" (take profit / trailing), *)
(*   "hold_wait"   for "chiyou, dengdai yingli" (hold, wait for profit),   *)
(*   "watch"       for "guanwang" (stay out).                              *)
(* The rounded display numbers of the dict (profit_pct, stop_loss_price,   *)
(* take_profit_price, trailing_stop_price) are not part of the decision.   *)
(***************************************************************************)
get_trade_recommendation(self, entry_price, current_price, highest_price, signal) ==
    LET trigger_stop_loss   == check_stop_loss(self, entry_price, current_price)
        trigger_take_profit == check_take_profit(self, entry_price, current_price,
                                                 highest_price)
    IN  IF signal = "SELL" \/ trigger_stop_loss
        THEN [action |-> "SELL",
              reason |-> IF trigger_stop_loss THEN "stop_loss" ELSE "signal_sell"]
        ELSE IF trigger_take_profit
        THEN [action |-> "SELL", reason |-> "take_profit"]
        ELSE IF signal = "BUY"
        THEN [action |-> "HOLD", reason |-> "hold_wait"]
        ELSE [action |-> "HOLD", reason |-> "watch"]

\* a sizing whose top tier starts above 0.8 instead of at 0.8
calculate_position_size_TopTierStrict(self, signal_strength, market_regime, account_balance) ==
    LET tier_pct ==
            IF RGt(signal_strength, Frac(8, 10)) THEN self.max_position_pct
            ELSE IF RGe(signal_strength, Frac(5, 10))
            THEN RMul(self.max_position_pct, Frac(75, 100))
            ELSE RMul(self.max_position_pct, Frac(5, 10))
        base_pct ==
            IF market_regime = "mean_reversion" THEN RMul(tier_pct, Frac(7, 10))
            ELSE IF market_regime = "trend_down" THEN RMul(tier_pct, Frac(5, 10))
            ELSE tier_pct
        position_value == RMul(account_balance, base_pct)
        cap == RMul(account_balance, self.max_position_pct)
    IN  IF RLe(position_value, cap) THEN position_value ELSE cap

(***************************************************************************)
(* RiskManager.calculate_position_size.  signal_strength and               *)
(* account_balance are exact fractions, market_regime is the regime's      *)
(* string.  The result is min(position_value, account_balance *            *)
(* max_position_pct).                                                      *)
(***************************************************************************)
calculate_position_size(self, signal_strength, market_regime, account_balance) ==
    LET tier_pct ==
            IF RGe(signal_strength, Frac(8, 10)) THEN self.max_position_pct
            ELSE IF RGe(signal_strength, Frac(5, 10))
            THEN RMul(self.max_position_pct, Frac(75, 100))
            ELSE RMul(self.max_position_pct, Frac(5, 10))
        base_pct ==
            IF market_regime = "mean_reversion" THEN RMul(tier_pct, Frac(7, 10))
            ELSE IF market_regime = "trend_down" THEN RMul(tier_pct, Frac(5, 10))
            ELSE tier_pct
        position_value == RMul(account_balance, base_pct)
        cap == RMul(account_balance, self.max_position_pct)
    IN  IF RLe(position_value, cap) THEN position_value ELSE cap

(***************************************************************************)
(* Calls on a RiskManager with arguments drawn from a price grid.  The     *)
(* grid holds the thresholds of an entry at 100 under both configurations  *)
(* (93, 90: stop-loss lines; 115, 120: take-profit lines; 118 / 130 and    *)
(* 115 / 125: pullbacks from a peak) and the entry price 0.                *)
(***************************************************************************)
EntryPrices == {0, 100}
RiskPrices  == {90, 93, 100, 110, 115, 118, 120, 125, 130}

CallCheckStopLoss(e, c) ==
    /\ call' = [op |-> "check_stop_loss", entry_price |-> e, current_price |-> c,
                ret |-> IF e = 0 THEN Raised(ZeroDivisionError)
                        ELSE Returned(check_stop_loss(rm, RatOf(e), RatOf(c)))]
    /\ UNCHANGED <<cash, positions, rm, df, engine>>

CallCheckTakeProfit(e, c, h) ==
    /\ call' = [op |-> "check_take_profit", entry_price |-> e, current_price |-> c,
                highest_price |-> h,
                ret |-> IF e = 0 THEN Raised(ZeroDivisionError)
                        ELSE Returned(check_take_profit(rm, RatOf(e), RatOf(c),
                                                        RatOf(h)))]
    /\ UNCHANGED <<cash, positions, rm, df, engine>>

\* entry_price = 0 passes the guard of profit_pct and then raises inside
\* check_stop_loss
CallGetTradeRecommendation(e, c, h, s) ==
    /\ call' = [op |-> "get_trade_recommendation", entry_price |-> e,
                current_price |-> c, highest_price |-> h, signal |-> s,
                ret |-> IF e = 0 THEN Raised(ZeroDivisionError)
                        ELSE Returned(get_trade_recommendation(rm, RatOf(e),
                                          RatOf(c), RatOf(h), s))]
    /\ UNCHANGED <<cash, positions, rm, df, engine>>

(***************************************************************************)
(* Arguments of calculate_position_size: signal strengths in tenths (0.5   *)
(* and 0.8 are the tier lines), the three regime strings and the account   *)
(* balances 0, 1000 and 100000.                                            *)
(***************************************************************************)
Strengths == {Frac(k, 10) : k \in {0, 3, 5, 6, 8, 10}}
RegimeNames == {"trend_up", "trend_down", "mean_reversion"}
Balances == {0, 1000, 100000}

CallCalculatePositionSize(s, g, b) ==
    /\ call' = [op |-> "calculate_position_size", signal_strength |-> s,
                market_regime |-> g, account_balance |-> b,
                ret |-> Returned(calculate_position_size(rm, s, g, RatOf(b)))]
    /\ UNCHANGED <<cash, positions, rm, df, engine>>

EmptyPositions == [c \in {} |-> 0]

InitRisk ==
    /\ rm \in RMConfigs
    /\ cash = 0
    /\ positions = EmptyPositions
    /\ call = NoCall
    /\ df = NoBars
    /\ engine = NoEngine

NextRisk ==
    \/ \E e \in EntryPrices, c \in RiskPrices : CallCheckStopLoss(e, c)
    \/ \E e \in EntryPrices, c \in RiskPrices, h \in RiskPrices :
           CallCheckTakeProfit(e, c, h)
    \/ \E e \in EntryPrices, c \in RiskPrices, h \in RiskPrices, s \in Signals :
           CallGetTradeRecommendation(e, c, h, s)
    \/ \E s \in Strengths, g \in RegimeNames, b \in Balances :
           CallCalculatePositionSize(s, g, b)

SpecRisk == InitRisk /\ [][NextRisk]_vars

(***************************************************************************)
(* Position.  Position.__init__ sets highest_price to the average cost.    *)
(* name and entry_date are labels that no operation reads back; they are   *)
(* left out of the record.                                                 *)
(***************************************************************************)
Position(code, quantity, avg_cost) ==
    [code |-> code, quantity |-> quantity, avg_cost |-> avg_cost,
     highest_price |-> avg_cost]

\* update_price without the comparison
update_price_Overwrite(pos, current_price) ==
    [pos EXCEPT !.highest_price = current_price]

\* Position.update_price
update_price(pos, current_price) ==
    IF RGt(current_price, pos.highest_price)
    THEN [pos EXCEPT !.highest_price = current_price]
    ELSE pos

(***************************************************************************)
(* Inputs of the ledger operations.  A sell quantity is <<q>>, or <<>>     *)
(* when the argument is omitted (quantity = None).  market_data is a dict  *)
(* from codes to prices: a function on a subset of Codes.                  *)
(***************************************************************************)
Codes      == {"A", "B"}
Prices     == {2, 3}
Quantities == 0 .. MaxQty
SellQuantities == {<<>>} \cup {<<q>> : q \in Quantities}

MarketData ==
    UNION {[cs -> Prices] : cs \in SUBSET Codes}

Without(f, k) == [x \in DOMAIN f \ {k} |-> f[x]]

(***************************************************************************)
(* Portfolio.buy, one action per path through the method.                  *)
(*                                                                         *)
(* BuyRejected: the funds check fails, return False.                       *)
(* BuyAdd:      the code is held; the new average cost is the total cost   *)
(*              divided by the increased quantity.  pos.quantity is        *)
(*              increased before the division: when the sum is zero the    *)
(*              division raises ZeroDivisionError with the quantity        *)
(*              already stored and cash untouched.                         *)
(* BuyOpen:     the code is not held; a Position is created.               *)
(***************************************************************************)
BuyCall(code, price, quantity, r) ==
    [op |-> "buy", code |-> code, price |-> price, quantity |-> quantity,
     ret |-> r]

\* the quantity held of a code, 0 when there is no position
Held(code) == IF code \in DOMAIN positions THEN positions[code].quantity ELSE 0

\* the funds check with the quantity forgotten
insufficient_funds_PriceOnly(price, quantity) == price > cash

\* line 193: the funds check
insufficient_funds(price, quantity) == price * quantity > cash

\* an add that averages the two prices without weighting them by quantity
add_to_position_Unweighted(pos, price, quantity) ==
    [pos EXCEPT !.quantity = pos.quantity + quantity,
                !.avg_cost = RDiv(RAdd(pos.avg_cost, RatOf(price)), RatOf(2))]

\* lines 199-201: the position after an add, when the new quantity is not 0
add_to_position(pos, price, quantity) ==
    LET total_cost == RAdd(RMul(pos.avg_cost, RatOf(pos.quantity)),
                           RatOf(price * quantity))
        new_quantity == pos.quantity + quantity
    IN  [pos EXCEPT !.quantity = new_quantity,
                    !.avg_cost = RDiv(total_cost, RatOf(new_quantity))]

\* a rejected buy that has debited cash before the funds check
BuyRejected_Debited(code, price, quantity) ==
    /\ Held(code) + quantity <= MaxHold
    /\ insufficient_funds(price, quantity)
    /\ cash' = cash - price * quantity
    /\ call' = BuyCall(code, price, quantity, Returned(FALSE))
    /\ UNCHANGED <<positions, rm, df, engine>>

BuyRejected(code, price, quantity) ==
    /\ Held(code) + quantity <= MaxHold
    /\ insufficient_funds(price, quantity)
    /\ call' = BuyCall(code, price, quantity, Returned(FALSE))
    /\ UNCHANGED <<cash, positions, rm, df, engine>>

BuyAdd(code, price, quantity) ==
    /\ Held(code) + quantity <= MaxHold
    /\ ~insufficient_funds(price, quantity)
    /\ code \in DOMAIN positions
    /\ IF positions[code].quantity + quantity = 0
       THEN /\ positions' = [positions EXCEPT
                                ![code].quantity = @ + quantity]
            /\ call' = BuyCall(code, price, quantity, Raised(ZeroDivisionError))
            /\ UNCHANGED <<cash, rm, df, engine>>
       ELSE /\ add_to_position(positions[code], price, quantity).avg_cost.d
                   <= MaxDen
            /\ positions' = [positions EXCEPT
                                ![code] = add_to_position(@, price, quantity)]
            /\ cash' = cash - price * quantity
            /\ call' = BuyCall(code, price, quantity, Returned(TRUE))
            /\ UNCHANGED <<rm, df, engine>>

BuyOpen(code, price, quantity) ==
    /\ Held(code) + quantity <= MaxHold
    /\ ~insufficient_funds(price, quantity)
    /\ code \notin DOMAIN positions
    /\ positions' = positions @@ (code :> Position(code, quantity, RatOf(price)))
    /\ cash' = cash - price * quantity
    /\ call' = BuyCall(code, price, quantity, Returned(TRUE))
    /\ UNCHANGED <<rm, df, engine>>

Buy(code, price, quantity) ==
    \/ BuyRejected(code, price, quantity)
    \/ BuyAdd(code, price, quantity)
    \/ BuyOpen(code, price, quantity)

(***************************************************************************)
(* Portfolio.sell.  quantity is <<>> (None) or <<q>>.  The call record     *)
(* notes in "held" whether the code had a position when the call was made. *)
(*                                                                         *)
(* SellAbsent: no position for the code, return 0.                         *)
(* SellHeld:   sell, and delete the position when nothing is left.         *)
(***************************************************************************)
SellCall(code, price, quantity, held, r) ==
    [op |-> "sell", code |-> code, price |-> price, quantity |-> quantity,
     held |-> held, ret |-> r]

\* the quantity sold without the clamp to the holding
sell_quantity_Unclamped(pos, quantity) ==
    IF quantity = <<>> THEN pos.quantity ELSE quantity[1]

\* lines 223-224: the quantity sold
sell_quantity(pos, quantity) ==
    IF quantity = <<>> \/ quantity[1] >= pos.quantity
    THEN pos.quantity
    ELSE quantity[1]

\* line 231: the position is deleted
sold_out(quantity_left) == quantity_left <= 0

\* a sell without a position that reports the proceeds it was asked for
SellAbsent_Proceeds(code, price, quantity) ==
    /\ code \notin DOMAIN positions
    /\ call' = SellCall(code, price, quantity, FALSE,
                        Returned(IF quantity = <<>> THEN 0 ELSE price * quantity[1]))
    /\ UNCHANGED <<cash, positions, rm, df, engine>>

SellAbsent(code, price, quantity) ==
    /\ code \notin DOMAIN positions
    /\ call' = SellCall(code, price, quantity, FALSE, Returned(0))
    /\ UNCHANGED <<cash, positions, rm, df, engine>>

SellHeld(code, price, quantity) ==
    /\ code \in DOMAIN positions
    /\ LET pos == positions[code]
           qty == sell_quantity(pos, quantity)
           proceeds == price * qty
       IN  /\ cash + proceeds <= MaxCash
           /\ cash' = cash + proceeds
           /\ IF sold_out(pos.quantity - qty)
              THEN positions' = Without(positions, code)
              ELSE positions' = [positions EXCEPT ![code].quantity = @ - qty]
           /\ call' = SellCall(code, price, quantity, TRUE, Returned(proceeds))
           /\ UNCHANGED <<rm, df, engine>>

Sell(code, price, quantity) ==
    \/ SellAbsent(code, price, quantity)
    \/ SellHeld(code, price, quantity)

(***************************************************************************)
(* Portfolio.update_positions.                                             *)
(***************************************************************************)
\* the loop of update_positions: the items of a dict have distinct codes, so
\* each position is updated at most once and the order of the items is
\* immaterial
update_all(ps, market_data) ==
    [code \in DOMAIN ps |->
        IF code \in DOMAIN market_data
        THEN update_price(ps[code], RatOf(market_data[code]))
        ELSE ps[code]]

UpdatePositions(market_data) ==
    /\ positions' = update_all(positions, market_data)
    /\ call' = [op |-> "update_positions", market_data |-> market_data,
                ret |-> Returned(None)]
    /\ UNCHANGED <<cash, rm, df, engine>>

(***************************************************************************)
(* Portfolio.__init__ and the ledger's specification.                      *)
(***************************************************************************)
Init ==
    /\ cash = InitialBalance
    /\ positions = EmptyPositions
    /\ rm = DefaultRM
    /\ call = NoCall
    /\ df = NoBars
    /\ engine = NoEngine

Next ==
    \/ \E c \in Codes, p \in Prices, q \in Quantities : Buy(c, p, q)
    \/ \E c \in Codes, p \in Prices, q \in SellQuantities : Sell(c, p, q)
    \/ \E md \in MarketData : UpdatePositions(md)

Spec == Init /\ [][Next]_vars

(***************************************************************************)
(* strategy_ensemble.py: the indicator columns and the strategies.         *)
(*                                                                         *)
(* A DataFrame is modelled by its column 'close', a sequence of positive   *)
(* integers; row i of the model (1 .. Len) is row i - 1 of the DataFrame.  *)
(* The windows of the source (5, 20, 60 rows) are scaled down so that      *)
(* every series up to MaxLen rows can be enumerated; the order between     *)
(* them is kept.                                                           *)
(***************************************************************************)
SHORT_MA == 2            \* Config.SHORT_MA (5), scaled
LONG_MA == 3             \* Config.LONG_MA (20), scaled
REVERSION_WINDOW == 4    \* Config.REVERSION_WINDOW (20), scaled
REVERSION_STD == 2       \* Config.REVERSION_STD
MaxLen == 6              \* longest series given to the strategies

Closes == {8, 10, 12}    \* the closes a bar can have

\* float('nan'): a value that every comparison answers with False
NaN == [n |-> 0, d |-> 0]
IsNaN(x) == x.d = 0
FGt(x, y) == ~IsNaN(x) /\ ~IsNaN(y) /\ RGt(x, y)
FLt(x, y) == ~IsNaN(x) /\ ~IsNaN(y) /\ RLt(x, y)

RECURSIVE SumRange(_, _, _)
SumRange(s, a, b) == IF a > b THEN 0 ELSE s[a] + SumRange(s, a + 1, b)

RECURSIVE SumSqRange(_, _, _)
SumSqRange(s, a, b) == IF a > b THEN 0 ELSE s[a] * s[a] + SumSqRange(s, a + 1, b)

\* Series.rolling(window).mean() at row i: NaN until the window is full
rolling_mean(close, window, i) ==
    IF i < window THEN NaN
    ELSE Frac(SumRange(close, i - window + 1, i), window)

\* the square of Series.rolling(window).std() at row i (the sample
\* variance, ddof = 1): NaN until the window is full, and for a window of 1
rolling_var(close, window, i) ==
    IF i < window \/ window < 2 THEN NaN
    ELSE LET S == SumRange(close, i - window + 1, i)
             Q == SumSqRange(close, i - window + 1, i)
         IN  Frac(window * Q - S * S, window * (window - 1))

(***************************************************************************)
(* TrendStrategy.  self is [short_ma, long_ma].                            *)
(***************************************************************************)
DefaultTrend == [short_ma |-> SHORT_MA, long_ma |-> LONG_MA]

\* column ma_cross at row i: 1 short above long, -1 below, 0 otherwise
\* (equal, or one of the averages still NaN)
ma_cross(self, close, i) ==
    LET ma_short == rolling_mean(close, self.short_ma, i)
        ma_long  == rolling_mean(close, self.long_ma, i)
    IN  IF FGt(ma_short, ma_long) THEN 1
        ELSE IF FLt(ma_short, ma_long) THEN -1
        ELSE 0

\* a signal column that repeats the cross state instead of its change
ma_signal_Level(self, close, i) ==
    RatOf(ma_cross(self, close, i))

\* column ma_signal at row i: ma_cross.diff() (NaN on the first row), with
\* positive values set to 1 and negative ones to -1
ma_signal(self, close, i) ==
    LET diff == IF i = 1 THEN NaN
                ELSE RatOf(ma_cross(self, close, i) - ma_cross(self, close, i - 1))
    IN  IF FGt(diff, RatOf(0)) THEN RatOf(1)
        ELSE IF FLt(diff, RatOf(0)) THEN RatOf(-1)
        ELSE diff

\* TrendStrategy.calculate: the four columns it adds, row by row
TrendStrategy_calculate(self, close) ==
    [i \in 1..Len(close) |->
        [ma_short  |-> rolling_mean(close, self.short_ma, i),
         ma_long   |-> rolling_mean(close, self.long_ma, i),
         ma_cross  |-> ma_cross(self, close, i),
         ma_signal |-> ma_signal(self, close, i)]]

TrendStrategy_get_signal(self, close) ==
    LET t == TrendStrategy_calculate(self, close)
    IN  IF Len(close) < self.long_ma THEN "HOLD"
        ELSE LET last_row == t[Len(close)]
             IN  IF last_row.ma_signal = RatOf(1) THEN "BUY"
                 ELSE IF last_row.ma_signal = RatOf(-1) THEN "SELL"
                 ELSE "HOLD"

(***************************************************************************)
(* MeanReversionStrategy.  self is [window, std_multiplier].               *)
(*                                                                         *)
(* The rolling standard deviation is a square root.  The columns that      *)
(* depend on it are kept exactly, as values a + b * sqrt(v) with fractions *)
(* a, b and v >= 0: [a, b, v].  Every column of one row has the same v,    *)
(* the sample variance of the row's window.                                *)
(***************************************************************************)
DefaultReversion == [window |-> REVERSION_WINDOW, std_multiplier |-> RatOf(REVERSION_STD)]
TightReversion   == [window |-> 3, std_multiplier |-> RatOf(1)]
ReversionConfigs == {DefaultReversion, TightReversion}

SNaN == [a |-> NaN, b |-> NaN, v |-> NaN]
SIsNaN(x) == IsNaN(x.a)

RSign(x) == IF x.n > 0 THEN 1 ELSE IF x.n < 0 THEN -1 ELSE 0

\* the sign of a + b * sqrt(v)
SSign(x) ==
    LET sa == RSign(x.a)
        sb == IF x.v.n = 0 THEN 0 ELSE RSign(x.b)
    IN  IF sb = 0 THEN sa
        ELSE IF sa = 0 \/ sa = sb THEN sb
        ELSE LET a2  == RMul(x.a, x.a)
                 b2v == RMul(RMul(x.b, x.b), x.v)
             IN  IF RGt(a2, b2v) THEN sa
                 ELSE IF RLt(a2, b2v) THEN sb
                 ELSE 0

\* x < r and x > r for a value x = a + b * sqrt(v) and a fraction r; False
\* when x is NaN
SLt(x, r) == ~SIsNaN(x) /\ SSign([x EXCEPT !.a = RSub(x.a, r)]) < 0
SGt(x, r) == ~SIsNaN(x) /\ SSign([x EXCEPT !.a = RSub(x.a, r)]) > 0

\* MeanReversionStrategy.calculate: the columns it adds, row by row.
\* upper = ma + k * std, lower = ma - k * std, and position =
\* (close - lower) / (upper - lower) = 1/2 + (close - ma) / (2 k std), which
\* is 0 / 0 = NaN when std is 0 (then close = ma).
MeanReversionStrategy_calculate(self, close) ==
    [i \in 1..Len(close) |->
        LET ma == rolling_mean(close, self.window, i)
            v  == rolling_var(close, self.window, i)
            k  == self.std_multiplier
        IN  IF IsNaN(ma) \/ IsNaN(v)
            THEN [ma |-> ma, var |-> v, upper |-> SNaN, lower |-> SNaN,
                  position |-> SNaN]
            ELSE [ma       |-> ma,
                  var      |-> v,
                  upper    |-> [a |-> ma, b |-> k, v |-> v],
                  lower    |-> [a |-> ma, b |-> RSub(RatOf(0), k), v |-> v],
                  position |->
                      IF v.n = 0 \/ k.n = 0 THEN SNaN
                      ELSE [a |-> Frac(1, 2),
                            b |-> RDiv(RSub(RatOf(close[i]), ma),
                                       RMul(RMul(RatOf(2), k), v)),
                            v |-> v]]]

\* a reversion signal that tests the band position first and reads the
\* lower half of the band as a buy
MeanReversionStrategy_get_signal_HalfBand(self, close) ==
    LET t == MeanReversionStrategy_calculate(self, close)
    IN  IF Len(close) < self.window THEN "HOLD"
        ELSE LET last_row == t[Len(close)]
             IN  IF SLt(last_row.position, Frac(1, 2)) THEN "BUY"
                 ELSE IF SGt(last_row.position, Frac(8, 10)) THEN "SELL"
                 ELSE "HOLD"

MeanReversionStrategy_get_signal(self, close) ==
    LET t == MeanReversionStrategy_calculate(self, close)
    IN  IF Len(close) < self.window THEN "HOLD"
        ELSE LET last_row == t[Len(close)]
                 c == RatOf(close[Len(close)])
             IN  IF SGt(last_row.lower, c) THEN "BUY"
                 ELSE IF SLt(last_row.upper, c) THEN "SELL"
                 ELSE IF SLt(last_row.position, Frac(2, 10)) THEN "BUY"
                 ELSE IF SGt(last_row.position, Frac(8, 10)) THEN "SELL"
                 ELSE "HOLD"

(***************************************************************************)
(* MarketRegimeDetector.detect.  Its windows are literals of the source    *)
(* (20 rows for the volatility and the short average, 60 rows for the      *)
(* long average), scaled like the others.                                  *)
(*                                                                         *)
(* The volatilities are square roots and detect compares one of them with  *)
(* the mean of all.  The model brackets every square root between two      *)
(* numbers with four decimals, std_lo <= std <= std_hi, and answers        *)
(* "current_vol > avg_vol * 1.2" with True when the brackets prove it.     *)
(***************************************************************************)
DetectWindow == 3        \* rolling(20) and len(df) < 20, scaled
DetectLongWindow == 4    \* rolling(60), scaled

\* column returns = close.pct_change() at row i
pct_change(close, i) ==
    IF i = 1 THEN NaN ELSE Frac(close[i] - close[i - 1], close[i - 1])

RECURSIVE SumReturns(_, _, _)
SumReturns(close, a, b) ==
    IF a > b THEN RatOf(0)
    ELSE RAdd(pct_change(close, a), SumReturns(close, a + 1, b))

RECURSIVE SumSqReturns(_, _, _)
SumSqReturns(close, a, b) ==
    IF a > b THEN RatOf(0)
    ELSE RAdd(RMul(pct_change(close, a), pct_change(close, a)),
              SumSqReturns(close, a + 1, b))

\* the square of returns.rolling(window).std() at row i: NaN until the
\* window holds `window` returns (the return of row 1 is NaN)
volatility_var(close, window, i) ==
    IF i < window + 1 \/ window < 2 THEN NaN
    ELSE LET S == SumReturns(close, i - window + 1, i)
             Q == SumSqReturns(close, i - window + 1, i)
         IN  RDiv(RSub(RMul(RatOf(window), Q), RMul(S, S)),
                  RatOf(window * (window - 1)))

\* floor(x * 100^k) for a fraction x >= 0, by long division
RECURSIVE ScaledFloorStep(_, _, _, _)
ScaledFloorStep(q, r, d, k) ==
    IF k = 0 THEN q
    ELSE ScaledFloorStep(q * 100 + (r * 100) \div d, (r * 100) % d, d, k - 1)

ScaledFloor(x, k) == ScaledFloorStep(x.n \div x.d, x.n % x.d, x.d, k)

\* floor(sqrt(n)) for an integer n >= 0, by Newton's iteration
RECURSIVE ISqrtFrom(_, _)
ISqrtFrom(n, x) ==
    LET y == (x + n \div x) \div 2
    IN  IF y >= x THEN x ELSE ISqrtFrom(n, y)

ISqrt(n) == IF n = 0 THEN 0 ELSE ISqrtFrom(n, n)

\* sqrt(v) in units of 0.0001, rounded down and rounded up
std_lo(v) == ISqrt(ScaledFloor(v, 4))
std_hi(v) == IF v.n = 0 THEN 0 ELSE std_lo(v) + 1

RECURSIVE SumStdHi(_, _, _, _)
SumStdHi(close, window, a, b) ==
    IF a > b THEN 0
    ELSE std_hi(volatility_var(close, window, a))
             + SumStdHi(close, window, a + 1, b)

RECURSIVE SumStdLo(_, _, _, _)
SumStdLo(close, window, a, b) ==
    IF a > b THEN 0
    ELSE std_lo(volatility_var(close, window, a))
             + SumStdLo(close, window, a + 1, b)

\* n = root * root * rad with rad free of squares, for an integer n >= 1
RECURSIVE SquareFreeFrom(_, _, _)
SquareFreeFrom(n, p, root) ==
    IF p * p > n THEN [root |-> root, rad |-> n]
    ELSE IF n % (p * p) = 0 THEN SquareFreeFrom(n \div (p * p), p, root * p)
    ELSE SquareFreeFrom(n, p + 1, root)

\* sqrt(v) = q * sqrt(rad) for a fraction v >= 0: q a fraction, rad an
\* integer free of squares (sqrt(0) = 0 * sqrt(1))
ExactStd(v) ==
    IF v.n = 0 THEN [q |-> RatOf(0), rad |-> 1]
    ELSE LET num == SquareFreeFrom(v.n, 2, 1)
             den == SquareFreeFrom(v.d, 2, 1)
         IN  [q   |-> Frac(num.root, den.root * den.rad),
              rad |-> num.rad * den.rad]

\* the part of m * 10 * current_vol - 12 * (sum of the volatilities) that
\* is a multiple of sqrt(rad), taken over rows a .. n, as that multiple
RECURSIVE VolExcess(_, _, _, _, _)
VolExcess(close, window, rad, a, n) ==
    IF a > n THEN RatOf(0)
    ELSE LET e == ExactStd(volatility_var(close, window, a))
             c == IF a = n THEN (n - window) * 10 - 12 ELSE -12
         IN  RAdd(IF e.rad = rad THEN RMul(RatOf(c), e.q) ELSE RatOf(0),
                  VolExcess(close, window, rad, a + 1, n))

\* current_vol > avg_vol * 1.2, where avg_vol is the mean of the rows of
\* the volatility column that are not NaN: rows window + 1 .. n.  "above"
\* or "not_above" when the brackets prove it; otherwise the difference is
\* sorted by square roots of distinct square-free integers, which are
\* independent: it is zero when every multiple is, and has the sign that
\* all the non-zero multiples share.  "unknown" is left when neither way
\* decides.
VolTest(close, window) ==
    LET n == Len(close)
        m == n - window
        current_lo == std_lo(volatility_var(close, window, n))
        current_hi == std_hi(volatility_var(close, window, n))
    IN  IF m < 1 THEN "not_above"          \* current_vol is NaN
        ELSE IF current_lo * m * 10 > 12 * SumStdHi(close, window, window + 1, n)
        THEN "above"
        ELSE IF current_hi * m * 10 <= 12 * SumStdLo(close, window, window + 1, n)
        THEN "not_above"
        ELSE LET rads == {ExactStd(volatility_var(close, window, i)).rad :
                              i \in (window + 1)..n}
                 signs == {RSign(VolExcess(close, window, rad, window + 1, n)) :
                              rad \in rads}
             IN  IF signs \subseteq {0, -1} THEN "not_above"
                 ELSE IF signs \subseteq {0, 1} THEN "above"
                 ELSE "unknown"

high_volatility(close, window) == VolTest(close, window) = "above"

\* the volatility test is decided on every prefix of the series
RECURSIVE VolKnown(_)
VolKnown(close) ==
    \/ Len(close) = 0
    \/ /\ VolTest(close, DetectWindow) # "unknown"
       /\ VolKnown(SubSeq(close, 1, Len(close) - 1))

\* a detector that looks at the trend before the volatility
MarketRegimeDetector_detect_TrendFirst(close) ==
    IF Len(close) < DetectWindow THEN "mean_reversion"
    ELSE IF FGt(rolling_mean(close, DetectWindow, Len(close)),
                rolling_mean(close, DetectLongWindow, Len(close)))
    THEN "trend_up"
    ELSE IF high_volatility(close, DetectWindow) THEN "mean_reversion"
    ELSE "trend_down"

MarketRegimeDetector_detect(close) ==
    IF Len(close) < DetectWindow THEN "mean_reversion"
    ELSE IF high_volatility(close, DetectWindow) THEN "mean_reversion"
    ELSE IF FGt(rolling_mean(close, DetectWindow, Len(close)),
                rolling_mean(close, DetectLongWindow, Len(close)))
    THEN "trend_up"
    ELSE "trend_down"

(***************************************************************************)
(* The strategies on a growing series: a bar arrives, and each strategy    *)
(* and the detector can be asked for its answer on the bars so far.        *)
(***************************************************************************)
\* bars on which the volatility test stays undecided are not explored
NewBar(c) ==
    /\ Len(df) < MaxLen
    /\ VolTest(Append(df, c), DetectWindow) # "unknown"
    /\ df' = Append(df, c)
    /\ call' = NoCall
    /\ UNCHANGED <<cash, positions, rm, engine>>

CallTrendGetSignal ==
    /\ call' = [op |-> "TrendStrategy.get_signal", self |-> DefaultTrend,
                ret |-> Returned(TrendStrategy_get_signal(DefaultTrend, df))]
    /\ UNCHANGED <<cash, positions, rm, df, engine>>

CallReversionGetSignal(self) ==
    /\ call' = [op |-> "MeanReversionStrategy.get_signal", self |-> self,
                ret |-> Returned(MeanReversionStrategy_get_signal(self, df))]
    /\ UNCHANGED <<cash, positions, rm, df, engine>>

CallDetect ==
    /\ call' = [op |-> "MarketRegimeDetector.detect",
                ret |-> Returned(MarketRegimeDetector_detect(df))]
    /\ UNCHANGED <<cash, positions, rm, df, engine>>

InitStrategies ==
    /\ cash = 0
    /\ positions = EmptyPositions
    /\ rm = DefaultRM
    /\ call = NoCall
    /\ df = NoBars
    /\ engine = NoEngine

NextStrategies ==
    \/ \E c \in Closes : NewBar(c)
    \/ CallTrendGetSignal
    \/ \E self \in ReversionConfigs : CallReversionGetSignal(self)
    \/ CallDetect

SpecStrategies == InitStrategies /\ [][NextStrategies]_vars

(***************************************************************************)
(* The doubles of the weighted votes.  The votes add products of -1, 0, 1  *)
(* with one-decimal literals and compare the sum with a one-decimal        *)
(* threshold, and the doubles next to 0.3 and 0.5 decide the comparison,   *)
(* so these sums are modelled bit for bit.  With U = 2^56, a number is     *)
(* [k, e], standing for (k * U + e) / (10 * U): k tenths plus a deviation  *)
(* e in units of 1 / (10 U).  For |x| < 2 the doubles are the multiples    *)
(* of ulp / U with ulp = 16 in [1, 2), 8 in [1/2, 1), 4 in [1/4, 1/2),     *)
(* 2 in [1/8, 1/4), 1 in [1/16, 1/8) (and finer below, where the sums of   *)
(* the model are differences of neighbouring doubles, hence exact).        *)
(* FRound is IEEE 754 round-to-nearest, ties to even.                      *)
(***************************************************************************)
RECURSIVE PowMod(_, _, _)
PowMod(b, x, m) == IF x = 0 THEN 1 % m ELSE (b * PowMod(b, x - 1, m)) % m

FRound(x) ==
    LET s  == IF x.k > 0 \/ (x.k = 0 /\ x.e >= 0) THEN 1 ELSE -1
        ka == s * x.k
        ea == s * x.e
        ulp == IF ka > 10 \/ (ka = 10 /\ ea >= 0) THEN 16
               ELSE IF ka > 5 \/ (ka = 5 /\ ea >= 0) THEN 8
               ELSE IF ka >= 3 THEN 4
               ELSE IF ka >= 2 THEN 2
               ELSE 1
        \* (ka * U + ea) modulo 10 ulp and modulo 20 ulp
        rest  == (ka * PowMod(2, 56, 10 * ulp) + ea) % (10 * ulp)
        rest2 == (ka * PowMod(2, 56, 20 * ulp) + ea) % (20 * ulp)
        odd   == rest2 >= 10 * ulp
        up    == rest > 5 * ulp \/ (rest = 5 * ulp /\ odd)
    IN  [k |-> x.k, e |-> s * (IF up THEN ea - rest + 10 * ulp ELSE ea - rest)]

\* the double of the literal k / 10
FLit(k) == FRound([k |-> k, e |-> 0])
\* int * float for the ints -1, 0, 1 (exact), float + float, float > float
FTimes(i, x) == [k |-> i * x.k, e |-> i * x.e]
FPlus(x, y) == FRound([k |-> x.k + y.k, e |-> x.e + y.e])
FAbove(x, y) == x.k > y.k \/ (x.k = y.k /\ x.e > y.e)

(***************************************************************************)
(* LLMStrategy, the advisory.  self is [api_key], "" when no key is        *)
(* configured.  What the outside world does to one call is `api`:          *)
(*   bad_volume  the latest bar has no usable volume, so that building     *)
(*               the request (int(volume)) raises before the try block;    *)
(*   http        "error" when the request fails (connection, HTTP status,  *)
(*               malformed body), "ok" when an answer comes back;          *)
(*   text        which of the words BUY and SELL the answer contains       *)
(*               after upper().                                            *)
(***************************************************************************)
NoKey  == [api_key |-> ""]
HasKey == [api_key |-> "key"]

ApiAnswers == {[bad_volume |-> FALSE, http |-> "ok", text |-> t] :
                   t \in SUBSET {"BUY", "SELL"}}
ApiFailures == {[bad_volume |-> TRUE, http |-> "ok", text |-> {}],
                [bad_volume |-> FALSE, http |-> "error", text |-> {}]}
ApiOutcomes == ApiAnswers \cup ApiFailures
ApiUnused == [bad_volume |-> FALSE, http |-> "ok", text |-> {}]

\* Signal.value
SignalValue(s) == IF s = "BUY" THEN 1 ELSE IF s = "SELL" THEN -1 ELSE 0

\* LLMStrategy._parse_signal
parse_signal(text) ==
    IF "BUY" \in text /\ "SELL" \notin text
    THEN [signal |-> "BUY", confidence |-> Frac(7, 10)]
    ELSE IF "SELL" \in text
    THEN [signal |-> "SELL", confidence |-> Frac(7, 10)]
    ELSE [signal |-> "HOLD", confidence |-> Frac(5, 10)]

\* LLMStrategy._call_api
call_api(self, api) ==
    IF self.api_key = "" THEN Raised("ValueError")
    ELSE IF api.http = "error" THEN Raised("RequestException")
    ELSE Returned(api.text)

\* an advisory whose failure result is a SELL
analyze_technical_FailureSells(self, close, api) ==
    IF self.api_key = ""
    THEN Returned([signal |-> "HOLD", confidence |-> RatOf(0), reason |-> "no_key"])
    ELSE IF Len(close) = 0 THEN Raised("IndexError")
    ELSE IF api.bad_volume THEN Raised("ValueError")
    ELSE LET response == call_api(self, api)
         IN  IF response.kind = "raise"
             THEN Returned([signal |-> "SELL", confidence |-> RatOf(0),
                            reason |-> "api_failed"])
             ELSE LET parsed == parse_signal(response.value)
                  IN  Returned([signal |-> parsed.signal,
                                confidence |-> parsed.confidence,
                                reason |-> "response"])

(***************************************************************************)
(* LLMStrategy.analyze_technical.  Of the returned dict the model keeps    *)
(* signal, confidence and the kind of reason ("no_key", "api_failed",      *)
(* "response").  df.iloc[-1] raises on a DataFrame without rows and        *)
(* int(volume) on a missing volume, both before the try block.             *)
(***************************************************************************)
analyze_technical(self, close, api) ==
    IF self.api_key = ""
    THEN Returned([signal |-> "HOLD", confidence |-> RatOf(0), reason |-> "no_key"])
    ELSE IF Len(close) = 0 THEN Raised("IndexError")
    ELSE IF api.bad_volume THEN Raised("ValueError")
    ELSE LET response == call_api(self, api)
         IN  IF response.kind = "raise"
             THEN Returned([signal |-> "HOLD", confidence |-> RatOf(0),
                            reason |-> "api_failed"])
             ELSE LET parsed == parse_signal(response.value)
                  IN  Returned([signal |-> parsed.signal,
                                confidence |-> parsed.confidence,
                                reason |-> "response"])

(***************************************************************************)
(* StrategyEnsemble.get_ensemble_signal.  self is [llm_strategy]; the      *)
(* trend and reversion strategies are the default ones.  market_regime is  *)
(* a regime's string, or None to have it detected.                         *)
(***************************************************************************)
EnsembleWeights(market_regime) ==
    IF market_regime = "trend_up"
    THEN [trend |-> FLit(5), reversion |-> FLit(2), llm |-> FLit(3)]
    ELSE IF market_regime = "trend_down"
    THEN [trend |-> FLit(5), reversion |-> FLit(1), llm |-> FLit(4)]
    ELSE [trend |-> FLit(2), reversion |-> FLit(5), llm |-> FLit(3)]

final_signal(score) ==
    IF FAbove(score, FLit(3)) THEN "BUY"
    ELSE IF FAbove(FLit(-3), score) THEN "SELL"
    ELSE "HOLD"

get_ensemble_signal(self, close, market_regime, api) ==
    LET regime == IF market_regime = None
                  THEN MarketRegimeDetector_detect(close)
                  ELSE market_regime
        trend_signal     == TrendStrategy_get_signal(DefaultTrend, close)
        reversion_signal == MeanReversionStrategy_get_signal(DefaultReversion, close)
        weights == EnsembleWeights(regime)
        not_configured == [signal |-> "HOLD", confidence |-> RatOf(0),
                           reason |-> "not_configured"]
        llm_result ==
            IF self.llm_strategy.api_key # ""
            THEN LET r == analyze_technical(self.llm_strategy, close, api)
                 IN  IF r.kind = "raise"
                     THEN [signal |-> "HOLD", confidence |-> RatOf(0),
                           reason |-> "llm_error"]
                     ELSE r.value
            ELSE not_configured
        llm_signal == llm_result.signal
        score == FPlus(FPlus(FTimes(SignalValue(trend_signal), weights.trend),
                             FTimes(SignalValue(reversion_signal),
                                    weights.reversion)),
                       FTimes(SignalValue(llm_signal), weights.llm))
    IN  [signal           |-> final_signal(score),
         score            |-> score,
         market_regime    |-> regime,
         trend_signal     |-> trend_signal,
         reversion_signal |-> reversion_signal,
         llm_signal       |-> llm_signal,
         llm_reason       |-> llm_result.reason,
         weights          |-> weights]

(***************************************************************************)
(* The ensemble on a growing series: a bar arrives, and the ensemble is    *)
(* asked once for its decision on the bars so far.                         *)
(***************************************************************************)
CallGetEnsembleSignal(self, market_regime, api) ==
    /\ call.op = "none"
    /\ call' = [op |-> "get_ensemble_signal", self |-> self,
                market_regime |-> market_regime, api |-> api,
                ret |-> Returned(get_ensemble_signal(self, df, market_regime, api))]
    /\ UNCHANGED <<cash, positions, rm, df, engine>>

MaxEnsembleLen == 5      \* longest series given to the ensemble

EnsembleBar(c) ==
    /\ Len(df) < MaxEnsembleLen
    /\ NewBar(c)

\* without a key the advisory is never called: one outcome stands for all
NextEnsemble ==
    \/ \E c \in Closes : EnsembleBar(c)
    \/ \E g \in RegimeNames \cup {None} :
           CallGetEnsembleSignal([llm_strategy |-> NoKey], g, ApiUnused)
    \/ \E g \in RegimeNames \cup {None}, api \in ApiOutcomes :
           CallGetEnsembleSignal([llm_strategy |-> HasKey], g, api)

SpecEnsemble == InitStrategies /\ [][NextEnsemble]_vars

(***************************************************************************)
(* backtest.py: BacktestEngine.                                            *)
(*                                                                         *)
(* The engine is the record `engine`: the fields of the object, and while  *)
(* run() is executing its place in it (pc) and the number of bars the loop *)
(* has processed (i).  A date is the number of its row, 1 .. Len(df).      *)
(* Prices, equity and percentages are exact fractions; round(x, 2) rounds  *)
(* half to even, which is what it does to a double that is no tie.         *)
(***************************************************************************)
InitialCapital == 1000   \* BacktestEngine(initial_capital), scaled to the closes
MaxDays == 6             \* longest series given to run()
WarmUp == 4              \* get_signal: "if i < 60", scaled

COMMISSION_RATE == Frac(15, 10000)    \* BacktestConfig.COMMISSION_RATE
SLIPPAGE        == Frac(10, 10000)    \* BacktestConfig.SLIPPAGE
STOP_LOSS       == Frac(-10, 100)     \* BacktestConfig.STOP_LOSS
TAKE_PROFIT     == Frac(20, 100)      \* BacktestConfig.TAKE_PROFIT
TRAILING_STOP   == Frac(8, 100)       \* BacktestConfig.TRAILING_STOP

\* round(x) of a fraction to the nearest integer, half to even
RoundHalfEven(x) ==
    LET q == x.n \div x.d
        r == x.n % x.d
    IN  IF 2 * r > x.d THEN q + 1
        ELSE IF 2 * r < x.d THEN q
        ELSE IF q % 2 = 0 THEN q ELSE q + 1

\* round(x, 2)
Round2(x) == Frac(RoundHalfEven(RMul(x, RatOf(100))), 100)

\* BacktestEngine.__init__
NewEngine ==
    [pc               |-> "new",
     i                |-> 0,
     frame            |-> <<>>,
     initial_capital  |-> InitialCapital,
     trades           |-> <<>>,
     equity_curve     |-> <<>>,
     current_position |-> 0,
     entry_price      |-> RatOf(0),
     total_trades     |-> 0,
     winning_trades   |-> 0,
     losing_trades    |-> 0]

\* BacktestEngine.calculate_indicators: the frame, row by row
calculate_indicators(close) ==
    LET trend     == TrendStrategy_calculate(DefaultTrend, close)
        reversion == MeanReversionStrategy_calculate(DefaultReversion, close)
    IN  [r \in 1..Len(close) |-> [close     |-> close[r],
                                  trend     |-> trend[r],
                                  reversion |-> reversion[r]]]

\* a subset that keeps the rows after row i as well
subset_Whole(close, i) == close

\* df.iloc[:i+1] for the Python index i of row i + 1
subset(close, i) == SubSeq(close, 1, i + 1)

\* a get_signal that decides at the ensemble's threshold of 0.3
BacktestEngine_get_signal_Threshold3(close, i) ==
    IF i < WarmUp THEN "HOLD"
    ELSE LET rows == SubSeq(close, 1, i + 1)
             trend_signal     == TrendStrategy_get_signal(DefaultTrend, rows)
             reversion_signal ==
                 MeanReversionStrategy_get_signal(DefaultReversion, rows)
             regime == MarketRegimeDetector_detect(rows)
             score ==
                 IF regime = "trend_up" \/ regime = "trend_down"
                 THEN FPlus(FTimes(SignalValue(trend_signal), FLit(7)),
                            FTimes(SignalValue(reversion_signal), FLit(3)))
                 ELSE FPlus(FTimes(SignalValue(reversion_signal), FLit(8)),
                            FTimes(SignalValue(trend_signal), FLit(2)))
         IN  IF FAbove(score, FLit(3)) THEN "BUY"
             ELSE IF FAbove(FLit(-3), score) THEN "SELL"
             ELSE "HOLD"

(***************************************************************************)
(* BacktestEngine.get_signal(df, i), i the Python index of the row.  The   *)
(* strategies and the detector recompute their columns from the closes of  *)
(* the subset.                                                             *)
(***************************************************************************)
BacktestEngine_get_signal(close, i) ==
    IF i < WarmUp THEN "HOLD"
    ELSE LET rows == subset(close, i)
             trend_signal     == TrendStrategy_get_signal(DefaultTrend, rows)
             reversion_signal ==
                 MeanReversionStrategy_get_signal(DefaultReversion, rows)
             regime == MarketRegimeDetector_detect(rows)
             score ==
                 IF regime = "trend_up" \/ regime = "trend_down"
                 THEN FPlus(FTimes(SignalValue(trend_signal), FLit(7)),
                            FTimes(SignalValue(reversion_signal), FLit(3)))
                 ELSE FPlus(FTimes(SignalValue(reversion_signal), FLit(8)),
                            FTimes(SignalValue(trend_signal), FLit(2)))
         IN  IF FAbove(score, FLit(5)) THEN "BUY"
             ELSE IF FAbove(FLit(-5), score) THEN "SELL"
             ELSE "HOLD"

(***************************************************************************)
(* get_signal on its own: on the bars so far, for any row of them.         *)
(***************************************************************************)
CallEngineGetSignal(i) ==
    /\ call.op = "none"
    /\ call' = [op |-> "BacktestEngine.get_signal", i |-> i,
                ret |-> Returned(BacktestEngine_get_signal(df, i))]
    /\ UNCHANGED <<cash, positions, rm, df, engine>>

\* the next bar arrives once the caller has its answer
SignalBar(c) ==
    /\ call.op = "none"
    /\ NewBar(c)

NextSignal ==
    \/ \E c \in Closes : SignalBar(c)
    \/ \E i \in 0..(Len(df) - 1) : CallEngineGetSignal(i)

SpecSignal == InitStrategies /\ [][NextSignal]_vars

\* a sell fill that leaves the slippage out
sell_fill_NoSlippage(price) ==
    RSub(price, RMul(price, COMMISSION_RATE))

\* the fills of execute_trade: price + commission + slippage for a buy,
\* price - commission - slippage for a sell
buy_fill(price) ==
    RAdd(RAdd(price, RMul(price, COMMISSION_RATE)), RMul(price, SLIPPAGE))

sell_fill(price) ==
    RSub(RSub(price, RMul(price, COMMISSION_RATE)), RMul(price, SLIPPAGE))

\* a conversion that rounds up
IntOf_Ceiling(x) == (x.n + x.d - 1) \div x.d

\* int(x) for a fraction x >= 0
IntOf(x) == x.n \div x.d

(***************************************************************************)
(* BacktestEngine.execute_trade(signal, price, date): the engine after     *)
(* the call.  price is positive.                                           *)
(***************************************************************************)
execute_trade(e, signal, price, date) ==
    IF signal = "BUY" /\ e.current_position = 0
    THEN LET buy_price  == buy_fill(price)
             max_shares == IntOf(RDiv(RMul(RatOf(e.initial_capital), Frac(3, 10)),
                                      buy_price))
         IN  IF max_shares > 0
             THEN [e EXCEPT !.current_position = 1,
                            !.entry_price = buy_price,
                            !.total_trades = @ + 1,
                            !.trades = Append(@, [date   |-> date,
                                                  action |-> "BUY",
                                                  price  |-> Round2(buy_price),
                                                  shares |-> max_shares])]
             ELSE e
    ELSE IF signal = "SELL" /\ e.current_position = 1
    THEN LET sell_price == sell_fill(price)
             profit_pct == RDiv(RSub(sell_price, e.entry_price), e.entry_price)
             won        == RGt(profit_pct, RatOf(0))
         IN  [e EXCEPT !.winning_trades = IF won THEN @ + 1 ELSE @,
                       !.losing_trades = IF won THEN @ ELSE @ + 1,
                       !.trades = Append(@, [date       |-> date,
                                             action     |-> "SELL",
                                             price      |-> Round2(sell_price),
                                             shares     |-> 0,
                                             profit_pct |->
                                                 Round2(RMul(profit_pct,
                                                             RatOf(100)))]),
                       !.current_position = 0,
                       !.entry_price = RatOf(0)]
    ELSE e

(***************************************************************************)
(* BacktestEngine.check_stop_loss_take_profit(price, date): the engine     *)
(* after the call (run() does not read the returned flag).                 *)
(***************************************************************************)
check_stop_loss_take_profit(e, price, date) ==
    IF e.current_position = 0 THEN e
    ELSE LET profit_pct == RDiv(RSub(price, e.entry_price), e.entry_price)
         IN  IF RLe(profit_pct, STOP_LOSS)
             THEN execute_trade(e, "SELL", price, date)
             ELSE IF RGe(profit_pct, TAKE_PROFIT)
             THEN LET trailing_stop_price ==
                          RMul(price, RSub(ROne, TRAILING_STOP))
                  IN  IF RLt(e.entry_price, trailing_stop_price)
                      THEN execute_trade(e, "SELL", price, date)
                      ELSE e
             ELSE e

\* the equity recorded for a day, from the state after the day's trades
equity_of(e, close) ==
    IF e.current_position = 1
    THEN LET invested == RMul(RatOf(e.initial_capital), Frac(3, 10))
         IN  RAdd(invested,
                  RMul(RSub(close, e.entry_price), RDiv(invested, e.entry_price)))
    ELSE RatOf(e.initial_capital)

\* a pass of the loop that considers the entry before the risk exit
run_day_EntryFirst(e, close, d) ==
    LET price   == RatOf(close[d])
        traded  == IF e.current_position = 0
                   THEN execute_trade(e, BacktestEngine_get_signal(close, d - 1),
                                      price, d)
                   ELSE e
        checked == check_stop_loss_take_profit(traded, price, d)
    IN  [checked EXCEPT !.equity_curve =
                            Append(@, [date |-> d, equity |-> equity_of(checked, price)]),
                        !.i = d]

\* a pass of the loop that acts on the signal whether FLAT or LONG
run_day_SignalAlways(e, close, d) ==
    LET price   == RatOf(close[d])
        checked == check_stop_loss_take_profit(e, price, d)
        traded  == execute_trade(checked, BacktestEngine_get_signal(close, d - 1),
                                 price, d)
    IN  [traded EXCEPT !.equity_curve =
                           Append(@, [date |-> d, equity |-> equity_of(traded, price)]),
                       !.i = d]

\* one pass of the loop of run(), for row d (Python index d - 1)
run_day(e, close, d) ==
    LET price   == RatOf(close[d])
        checked == check_stop_loss_take_profit(e, price, d)
        traded  == IF checked.current_position = 0
                   THEN execute_trade(checked,
                                      BacktestEngine_get_signal(close, d - 1),
                                      price, d)
                   ELSE checked
    IN  [traded EXCEPT !.equity_curve =
                           Append(@, [date |-> d, equity |-> equity_of(traded, price)]),
                       !.i = d]

\* an end of run() that leaves an open position open
force_close_Skipped(e, close) == e

\* the end of run(): a position still open is sold at the last close
force_close(e, close) ==
    IF e.current_position = 1
    THEN execute_trade(e, "SELL", RatOf(close[Len(close)]), Len(close))
    ELSE e

EmptyDict == [k \in {} |-> None]

\* a win rate without the guard for zero trades
win_rate_Unguarded(e) ==
    IF e.total_trades = 0 THEN Raised(ZeroDivisionError)
    ELSE Returned(Frac(e.winning_trades, e.total_trades))

\* win_rate = winning_trades / total_trades if total_trades > 0 else 0
win_rate(e) ==
    IF e.total_trades > 0
    THEN Returned(Frac(e.winning_trades, e.total_trades))
    ELSE Returned(RatOf(0))

RECURSIVE MaxDrawdownFrom(_, _, _)
\* min over the rows d .. Len of (equity - cummax) / cummax, given the
\* cummax of the rows before d and the minimum so far
MaxDrawdownFrom(curve, d, acc) ==
    IF d > Len(curve) THEN acc.min
    ELSE LET eq   == curve[d].equity
             peak == IF RGt(eq, acc.peak) THEN eq ELSE acc.peak
             dd   == RDiv(RSub(eq, peak), peak)
         IN  MaxDrawdownFrom(curve, d + 1,
                 [peak |-> peak, min |-> IF RLt(dd, acc.min) THEN dd ELSE acc.min])

\* self.trades[-20:]
LastTrades(trades) ==
    IF Len(trades) <= 20 THEN trades ELSE SubSeq(trades, Len(trades) - 19, Len(trades))

(***************************************************************************)
(* BacktestEngine.generate_report.  annual_return (a fractional power) and *)
(* sharpe_ratio (a square root) are left out of the report; symbol and     *)
(* name are labels.                                                        *)
(***************************************************************************)
generate_report(e) ==
    IF Len(e.equity_curve) = 0 THEN Returned(EmptyDict)
    ELSE LET curve == e.equity_curve
             final == curve[Len(curve)].equity
             total_return == RDiv(RSub(final, RatOf(e.initial_capital)),
                                  RatOf(e.initial_capital))
             max_drawdown ==
                 MaxDrawdownFrom(curve, 1, [peak |-> curve[1].equity,
                                            min  |-> RatOf(0)])
             rate == win_rate(e)
         IN  IF rate.kind = "raise" THEN rate
             ELSE Returned(
                 [period |-> [start |-> curve[1].date,
                              end   |-> curve[Len(curve)].date,
                              trading_days |-> Len(curve)],
                  performance |->
                      [initial_capital |-> e.initial_capital,
                       final_equity    |-> Round2(final),
                       total_return    |-> Round2(RMul(total_return, RatOf(100))),
                       max_drawdown    |-> Round2(RMul(max_drawdown, RatOf(100)))],
                  trading |->
                      [total_trades   |-> e.total_trades,
                       winning_trades |-> e.winning_trades,
                       losing_trades  |-> e.losing_trades,
                       win_rate       |-> Round2(RMul(rate.value, RatOf(100)))],
                  trades |-> LastTrades(e.trades)])

(***************************************************************************)
(* A backtest.  The bars are loaded before the engine is constructed; an   *)
(* engine is then either asked for its report at once, or run: run()       *)
(* builds the frame, passes the loop once per row, closes what is open     *)
(* and returns the report.  run() on a frame without rows raises on the    *)
(* first date it prints.                                                   *)
(***************************************************************************)
CallGenerateReport ==
    /\ engine.pc \in {"new", "done"}
    /\ call' = [op |-> "generate_report", ret |-> generate_report(engine)]
    /\ UNCHANGED <<cash, positions, rm, df, engine>>

RunEmpty ==
    /\ engine.pc = "new"
    /\ Len(df) = 0
    /\ engine' = [engine EXCEPT !.pc = "raised"]
    /\ call' = [op |-> "run", ret |-> Raised("IndexError")]
    /\ UNCHANGED <<cash, positions, rm, df>>

RunBegin ==
    /\ engine.pc = "new"
    /\ Len(df) > 0
    /\ engine' = [engine EXCEPT !.pc = "loop", !.frame = calculate_indicators(df)]
    /\ call' = [op |-> "run"]
    /\ UNCHANGED <<cash, positions, rm, df>>

RunDay ==
    /\ engine.pc = "loop"
    /\ engine.i < Len(df)
    /\ engine' = run_day(engine, df, engine.i + 1)
    /\ UNCHANGED <<cash, positions, rm, df, call>>

RunFinish ==
    /\ engine.pc = "loop"
    /\ engine.i = Len(df)
    /\ LET closed == force_close(engine, df)
       IN  /\ engine' = [closed EXCEPT !.pc = "done"]
           /\ call' = [op |-> "run", ret |-> generate_report(closed)]
    /\ UNCHANGED <<cash, positions, rm, df>>

\* the closes of a bar of a backtest: none of their fills is half a cent
BacktestCloses == {8, 9, 12}

RECURSIVE SeriesOfLen(_)
SeriesOfLen(n) ==
    IF n = 0 THEN {<<>>}
    ELSE {Append(s, c) : s \in SeriesOfLen(n - 1), c \in BacktestCloses}

\* the series run() is given: up to MaxDays bars, the volatility test
\* decided on each prefix
BacktestSeries ==
    {s \in UNION {SeriesOfLen(n) : n \in 0..MaxDays} : VolKnown(s)}

InitBacktest ==
    /\ cash = 0
    /\ positions = EmptyPositions
    /\ rm = ScenarioRM
    /\ call = NoCall
    /\ df \in BacktestSeries
    /\ engine = NewEngine

NextBacktest ==
    \/ CallGenerateReport
    \/ RunEmpty
    \/ RunBegin
    \/ RunDay
    \/ RunFinish

SpecBacktest == InitBacktest /\ [][NextBacktest]_vars

(***************************************************************************)
(* The same backtest on longer and wilder series: up to MaxDays + 1 bars   *)
(* that move between the lowest and the highest close only, for an engine  *)
(* constructed with the usual capital or with one that buys no share.      *)
(***************************************************************************)
SmallCapital == 20       \* an initial_capital whose 30% buys no share

ExtremeCloses == {8, 12}

RECURSIVE ExtremeSeriesOfLen(_)
ExtremeSeriesOfLen(n) ==
    IF n = 0 THEN {<<>>}
    ELSE {Append(s, c) : s \in ExtremeSeriesOfLen(n - 1), c \in ExtremeCloses}

ExtremeSeries ==
    {s \in UNION {ExtremeSeriesOfLen(n) : n \in 0..(MaxDays + 1)} : VolKnown(s)}

InitBacktestExtreme ==
    /\ cash = 0
    /\ positions = EmptyPositions
    /\ rm = ScenarioRM
    /\ call = NoCall
    /\ df \in ExtremeSeries
    /\ \E capital \in {InitialCapital, SmallCapital} :
           engine = [NewEngine EXCEPT !.initial_capital = capital]

SpecBacktestExtreme == InitBacktestExtreme /\ [][NextBacktest]_vars

(***************************************************************************)
(* Properties.                                                             *)
(***************************************************************************)
\* the call cl returned the value v
Ret(cl, v) == cl.ret.kind = "return" /\ cl.ret.value = v

\* C1: starting from a non-negative balance, after every sequence of buy and
\* sell calls with positive prices and non-negative quantities the cash of
\* the portfolio is not negative.
C1_CashNeverNegative == cash >= 0

\* a buy has used up the last of the cash
C1_Witness == call.op = "buy" /\ Ret(call, TRUE) /\ call.quantity > 0 /\ cash = 0

\* C2: every code present in positions has quantity > 0 (buys of quantity 0
\* included).
C2_HeldQuantityPositive ==
    \A c \in DOMAIN positions : positions[c].quantity > 0

\* C3: a buy whose price * quantity exceeds the cash returns False and leaves
\* cash and the whole positions mapping as they were, whether or not the code
\* is held.
C3_RejectedBuyChangesNothing ==
    [][(call'.op = "buy" /\ call'.price * call'.quantity > cash)
          => /\ Ret(call', FALSE)
             /\ cash' = cash
             /\ positions' = positions]_vars

\* a buy was rejected for a code that is held, with both codes held
C3_Witness ==
    /\ call.op = "buy" /\ Ret(call, FALSE)
    /\ call.code \in DOMAIN positions
    /\ DOMAIN positions = Codes

\* C4: a successful buy debits cash by price * quantity; it opens a position
\* with that quantity and average cost = price, or adds the quantity to the
\* held position and makes the average cost the quantity-weighted mean of
\* the old average cost and the price.  The cost basis avg_cost * quantity
\* is price * quantity when the position is opened and grows by exactly
\* price * quantity with every add, so that without sells it is the money
\* paid for the shares of the position.
C4_BuyDebitsAndAverages ==
    [][(call'.op = "buy" /\ Ret(call', TRUE))
          => LET c == call'.code
                 p == call'.price
                 q == call'.quantity
             IN  /\ cash' = cash - p * q
                 /\ c \in DOMAIN positions'
                 /\ IF c \in DOMAIN positions
                    THEN LET old == positions[c]
                             new == positions'[c]
                         IN  /\ new.quantity = old.quantity + q
                             /\ new.avg_cost.n * old.avg_cost.d * (old.quantity + q)
                                  = (old.avg_cost.n * old.quantity
                                       + p * q * old.avg_cost.d) * new.avg_cost.d
                             /\ RMul(new.avg_cost, RatOf(new.quantity))
                                  = RAdd(RMul(old.avg_cost, RatOf(old.quantity)),
                                         RatOf(p * q))
                    ELSE /\ positions'[c].quantity = q
                         /\ positions'[c].avg_cost = RatOf(p)
                         /\ RMul(positions'[c].avg_cost, RatOf(q)) = RatOf(p * q)]_vars

\* an add at a different price has produced a fractional average cost
C4_Witness ==
    /\ call.op = "buy" /\ Ret(call, TRUE)
    /\ positions[call.code].avg_cost.d = 2
    /\ positions[call.code].quantity = 2

\* C5: a sell of a held code credits cash by, and returns, price * min(asked,
\* held) (the whole holding when the quantity is omitted), takes that many
\* shares off the position without changing its average cost, removes the
\* position exactly when nothing is left, and never credits more shares than
\* were held.
C5_SellCreditsClampedQuantity ==
    [][(call'.op = "sell" /\ call'.code \in DOMAIN positions)
          => LET c == call'.code
                 p == call'.price
                 held == positions[c].quantity
                 asked == call'.quantity
                 n == IF asked = <<>> THEN held
                      ELSE IF asked[1] < held THEN asked[1] ELSE held
             IN  /\ Ret(call', p * n)
                 /\ cash' = cash + p * n
                 /\ (held - n = 0) <=> (c \notin DOMAIN positions')
                 /\ c \in DOMAIN positions'
                       => /\ positions'[c].quantity = held - n
                          /\ positions'[c].avg_cost = positions[c].avg_cost
                 /\ cash' - cash <= p * held]_vars

\* a sell asked for more than the holding of a code and the position is gone
C5_Witness ==
    /\ call.op = "sell" /\ call.held
    /\ call.quantity = <<MaxQty>>
    /\ call.ret.value = call.price
    /\ call.code \notin DOMAIN positions

\* C6: a sell of a code without a position returns 0 and leaves cash and all
\* positions unchanged.
C6_SellWithoutPositionIsNoOp ==
    [][(call'.op = "sell" /\ call'.code \notin DOMAIN positions)
          => /\ Ret(call', 0)
             /\ cash' = cash
             /\ positions' = positions]_vars

\* a sell of a positive quantity of a code that is not held, while the other
\* code is held
C6_Witness ==
    /\ call.op = "sell" /\ ~call.held
    /\ call.quantity = <<MaxQty>>
    /\ positions # EmptyPositions

\* C7: while a position stays open its high-water price never decreases, and
\* after update_positions with a price p for its code it is at least p.
C7_HighWaterMonotonic ==
    [][/\ \A c \in DOMAIN positions \cap DOMAIN positions' :
             RGe(positions'[c].highest_price, positions[c].highest_price)
       /\ call'.op = "update_positions"
             => \A c \in DOMAIN call'.market_data \cap DOMAIN positions' :
                    RGe(positions'[c].highest_price,
                        RatOf(call'.market_data[c]))]_vars

\* an update with a price below the high-water mark, after the mark had risen
\* above the average cost
C7_Witness ==
    /\ call.op = "update_positions"
    /\ \E c \in DOMAIN call.market_data \cap DOMAIN positions :
           /\ RLt(RatOf(call.market_data[c]), positions[c].highest_price)
           /\ RGt(positions[c].highest_price, positions[c].avg_cost)

(***************************************************************************)
(* The thresholds of the RiskManager in integer arithmetic, for a positive *)
(* integer entry price e, current price c and high-water price h.          *)
(***************************************************************************)
\* (c - e) / e >= take_profit_pct
GainReached(e, c) ==
    (c - e) * rm.take_profit_pct.d >= rm.take_profit_pct.n * e

\* h has reached e * (1 + take_profit_pct)
PeakReached(e, h) ==
    h * rm.take_profit_pct.d >= e * (rm.take_profit_pct.d + rm.take_profit_pct.n)

\* c <= h * (1 - trailing_stop_pct)
PulledBack(c, h) ==
    c * rm.trailing_stop_pct.d <= h * (rm.trailing_stop_pct.d - rm.trailing_stop_pct.n)

\* (c - e) / e <= max_loss_pct
LossReached(e, c) ==
    (c - e) * rm.max_loss_pct.d <= rm.max_loss_pct.n * e

\* C8: once the price since entry has reached entry * (1 + take_profit_pct),
\* any later price at or below high-water * (1 - trailing_stop_pct) makes the
\* recommendation SELL, also when that price is below the take-profit line
\* (entry 100, take-profit 0.20, trailing 0.08, peak 130, price 118: SELL).
C8_ArmedPullbackSells ==
    (/\ call.op = "get_trade_recommendation"
     /\ call.ret.kind = "return"
     /\ call.highest_price >= call.current_price
     /\ PeakReached(call.entry_price, call.highest_price)
     /\ PulledBack(call.current_price, call.highest_price))
        => call.ret.value.action = "SELL"

C10_RecommendationTable ==
    (call.op = "get_trade_recommendation" /\ call.ret.kind = "return")
        => LET e == call.entry_price
               c == call.current_price
               h == call.highest_price
               rec == call.ret.value
               stop == LossReached(e, c)
               take == GainReached(e, c) /\ PulledBack(c, h)
           IN  /\ rec.action = "SELL" <=> (call.signal = "SELL" \/ stop \/ take)
               /\ rec.action # "SELL" => rec.action = "HOLD"
               /\ rec.action # "BUY"
               /\ (stop /\ call.signal = "SELL") => rec.reason = "stop_loss"

\* a BUY signal with no exit condition: the recommendation is to hold
C10_Witness ==
    /\ call.op = "get_trade_recommendation" /\ call.ret.kind = "return"
    /\ call.signal = "BUY"
    /\ call.ret.value.reason = "hold_wait"

(***************************************************************************)
(* C18: for a balance >= 0 calculate_position_size returns                 *)
(* balance * max_position_pct * t * r, where t is 1 for a signal strength  *)
(* >= 0.8, 0.75 for one >= 0.5 and 0.5 below that, and r is 0.7 in the     *)
(* regime "mean_reversion", 0.5 in "trend_down" and 1 otherwise; the       *)
(* result never exceeds balance * max_position_pct, and a weaker signal    *)
(* never gets a larger size than a stronger one.                           *)
(***************************************************************************)
StrengthTier(s) ==
    IF s.n * 10 >= 8 * s.d THEN Frac(1, 1)
    ELSE IF s.n * 10 >= 5 * s.d THEN Frac(3, 4)
    ELSE Frac(1, 2)

RegimeFactor(g) ==
    IF g = "mean_reversion" THEN Frac(7, 10)
    ELSE IF g = "trend_down" THEN Frac(1, 2)
    ELSE Frac(1, 1)

C18_PositionSizeFormula ==
    (call.op = "calculate_position_size" /\ call.account_balance >= 0) =>
        LET size == call.ret.value
            cap  == RMul(RatOf(call.account_balance), rm.max_position_pct)
        IN  /\ call.ret.kind = "return"
            /\ size = RMul(cap, RMul(StrengthTier(call.signal_strength),
                                     RegimeFactor(call.market_regime)))
            /\ RLe(size, cap)
            /\ \A weaker \in Strengths :
                   RLe(weaker, call.signal_strength) =>
                       RLe(calculate_position_size(rm, weaker, call.market_regime,
                                                   RatOf(call.account_balance)),
                           size)

\* a call at the top tier line 0.8 in the mean-reverting regime: 100000 *
\* 0.3 * 1 * 0.7 = 21000
C18_Witness ==
    /\ call.op = "calculate_position_size"
    /\ call.signal_strength = Frac(8, 10)
    /\ call.market_regime = "mean_reversion"
    /\ call.account_balance = 100000
    /\ call.ret = Returned(RatOf(21000))

(***************************************************************************)
(* C16: on every prefix with at least long_ma rows TrendStrategy.get_signal*)
(* returns BUY exactly when the cross state of the last row (+1 short      *)
(* average above long, -1 below, 0 equal or undefined) is higher than on   *)
(* the row before, SELL exactly when it is lower, HOLD otherwise; a cross  *)
(* state that persists does not repeat its signal.                         *)
(***************************************************************************)
CrossState(self, close, i) ==
    IF i < self.long_ma \/ i < self.short_ma THEN 0
    ELSE LET short == SumRange(close, i - self.short_ma + 1, i) * self.long_ma
             long  == SumRange(close, i - self.long_ma + 1, i) * self.short_ma
         IN  IF short > long THEN 1 ELSE IF short < long THEN -1 ELSE 0

C16_TrendSignalIsCrossEvent ==
    (call.op = "TrendStrategy.get_signal" /\ Len(df) >= call.self.long_ma) =>
        LET now    == CrossState(call.self, df, Len(df))
            before == CrossState(call.self, df, Len(df) - 1)
        IN  /\ call.ret.kind = "return"
            /\ (call.ret.value = "BUY") <=> (now > before)
            /\ (call.ret.value = "SELL") <=> (now < before)
            /\ (call.ret.value = "HOLD") <=> (now = before)

\* a golden cross: the short average was below the long one on the row
\* before and is above it now
C16_Witness ==
    /\ call.op = "TrendStrategy.get_signal"
    /\ Len(df) > call.self.long_ma
    /\ CrossState(call.self, df, Len(df) - 1) = -1
    /\ CrossState(call.self, df, Len(df)) = 1
    /\ call.ret = Returned("BUY")

(***************************************************************************)
(* C17: on a series of at least `window` rows                              *)
(* MeanReversionStrategy.get_signal returns BUY exactly when the close is  *)
(* below the lower band or the band position is below 0.2, SELL exactly    *)
(* when the close is above the upper band or the position is above 0.8,    *)
(* HOLD otherwise; the two conditions are never both true; with a band of  *)
(* width zero, or fewer rows than the window, the signal is HOLD.          *)
(*                                                                         *)
(* With S and Q the sum and the sum of squares of the window, x the last   *)
(* close, w the window and k the multiplier: w * (ma - x) = S - w x and    *)
(* w (w - 1) std^2 = w Q - S^2, so "ma - x > c k std" is                   *)
(* S - w x > 0 and (S - w x)^2 (w - 1) > c^2 k^2 w (w Q - S^2).            *)
(***************************************************************************)
WindowGap(self, close) ==
    SumRange(close, Len(close) - self.window + 1, Len(close))
        - self.window * close[Len(close)]

WindowSpread(self, close) ==
    LET S == SumRange(close, Len(close) - self.window + 1, Len(close))
        Q == SumSqRange(close, Len(close) - self.window + 1, Len(close))
    IN  self.window * Q - S * S

\* |gap| / w > (cn / cd) * k * std
GapBeyond(self, close, cn, cd) ==
    LET g == WindowGap(self, close)
        k == self.std_multiplier
    IN  g * g * (self.window - 1) * cd * cd * k.d * k.d
            > cn * cn * k.n * k.n * self.window * WindowSpread(self, close)

BelowLower(self, close)  == WindowGap(self, close) > 0 /\ GapBeyond(self, close, 1, 1)
AboveUpper(self, close)  == WindowGap(self, close) < 0 /\ GapBeyond(self, close, 1, 1)
PositionLow(self, close) ==
    /\ WindowSpread(self, close) > 0
    /\ WindowGap(self, close) > 0
    /\ GapBeyond(self, close, 6, 10)
PositionHigh(self, close) ==
    /\ WindowSpread(self, close) > 0
    /\ WindowGap(self, close) < 0
    /\ GapBeyond(self, close, 6, 10)

C17_ReversionSignalTable ==
    call.op = "MeanReversionStrategy.get_signal" =>
        /\ call.ret.kind = "return"
        /\ IF Len(df) < call.self.window
           THEN call.ret.value = "HOLD"
           ELSE LET buy  == BelowLower(call.self, df) \/ PositionLow(call.self, df)
                    sell == AboveUpper(call.self, df) \/ PositionHigh(call.self, df)
                IN  /\ (call.ret.value = "BUY") <=> buy
                    /\ (call.ret.value = "SELL") <=> sell
                    /\ (call.ret.value = "HOLD") <=> (~buy /\ ~sell)
                    /\ ~(buy /\ sell)
                    /\ (WindowSpread(call.self, df) = 0) => call.ret.value = "HOLD"

\* a close below the lower band
C17_Witness ==
    /\ call.op = "MeanReversionStrategy.get_signal"
    /\ Len(df) >= call.self.window
    /\ BelowLower(call.self, df)
    /\ call.ret = Returned("BUY")

(***************************************************************************)
(* C14: the ensemble score is trend * w_t + reversion * w_r + advisory *   *)
(* w_a with strengths -1, 0, 1 (SELL, HOLD, BUY) and weights (0.5, 0.2,    *)
(* 0.3) in TREND_UP, (0.5, 0.1, 0.4) in TREND_DOWN, (0.2, 0.5, 0.3) in     *)
(* the mean-reverting regime; the decision is BUY exactly when the score   *)
(* is above 0.3, SELL exactly when it is below -0.3, HOLD otherwise, so a  *)
(* score of exactly 0.3 or -0.3 is HOLD.  The weighted sum of the claim is *)
(* counted in tenths; the score of the code is a sum of doubles.           *)
(***************************************************************************)
Strength(s) == CASE s = "BUY" -> 1 [] s = "SELL" -> -1 [] s = "HOLD" -> 0

TenthsTable(g) ==
    CASE g = "trend_up"       -> <<5, 2, 3>>
      [] g = "trend_down"     -> <<5, 1, 4>>
      [] g = "mean_reversion" -> <<2, 5, 3>>

ScoreTenths(g, trend, reversion, advisory) ==
    Strength(trend) * TenthsTable(g)[1] + Strength(reversion) * TenthsTable(g)[2]
        + Strength(advisory) * TenthsTable(g)[3]

Decision(tenths) == IF tenths > 3 THEN "BUY" ELSE IF tenths < -3 THEN "SELL" ELSE "HOLD"

C14_WeightedVote ==
    call.op = "get_ensemble_signal" =>
        LET r == call.ret.value
            tenths == ScoreTenths(r.market_regime, r.trend_signal,
                                  r.reversion_signal, r.llm_signal)
        IN  /\ call.ret.kind = "return"
            /\ r.trend_signal = TrendStrategy_get_signal(DefaultTrend, df)
            /\ r.reversion_signal =
                   MeanReversionStrategy_get_signal(DefaultReversion, df)
            /\ call.market_regime # None => r.market_regime = call.market_regime
            /\ r.score.k = tenths
            /\ r.signal = Decision(tenths)
            /\ (tenths = 3 \/ tenths = -3) => r.signal = "HOLD"

(***************************************************************************)
(* C15: when the advisory gives nothing (no API key; an exception while    *)
(* the request is built; a failed request, which analyze_technical turns   *)
(* into a failure result) get_ensemble_signal still returns, and its       *)
(* decision is the one of the same vote with the advisory strength 0.      *)
(***************************************************************************)
AdvisoryFails(cl) ==
    \/ cl.self.llm_strategy.api_key = ""
    \/ Len(df) = 0
    \/ cl.api \in ApiFailures

C15_FailedAdvisoryIsNeutral ==
    (call.op = "get_ensemble_signal" /\ AdvisoryFails(call)) =>
        LET r == call.ret.value
        IN  /\ call.ret.kind = "return"
            /\ r.llm_signal = "HOLD"
            /\ r.signal = Decision(ScoreTenths(r.market_regime, r.trend_signal,
                                               r.reversion_signal, "HOLD"))

\* a failed request with a key configured, on a day the two strategies
\* alone decide BUY
C15_Witness ==
    /\ call.op = "get_ensemble_signal"
    /\ call.self.llm_strategy = HasKey
    /\ call.api.http = "error"
    /\ call.ret.value.llm_reason = "api_failed"
    /\ call.ret.value.signal = "BUY"

\* the last element of a non-empty sequence
Last(s) == s[Len(s)]

\* p is x to the nearest cent
NearestCent(p, x) ==
    /\ RLe(RSub(p, x), Frac(1, 200))
    /\ RLe(RSub(x, p), Frac(1, 200))

\* close -/+ (COMMISSION_RATE + SLIPPAGE) * close, from the configured rates
CostRate == RAdd(COMMISSION_RATE, SLIPPAGE)
CostAdjustedSell(close) == RMul(RatOf(close), RSub(ROne, CostRate))
CostAdjustedBuy(close)  == RMul(RatOf(close), RAdd(ROne, CostRate))

(***************************************************************************)
(* C11: when run() completes on a non-empty series the engine is FLAT      *)
(* (current_position = 0, entry_price = 0); a position still open after    *)
(* the last day is closed by exactly one more trade record, a SELL dated   *)
(* the last day at the cost-adjusted final close, and the position and the *)
(* counters are otherwise as the loop left them; the last trade record of  *)
(* a run that traded is a SELL.                                            *)
(***************************************************************************)
C11_RunEndsFlat ==
    [][(engine.pc = "loop" /\ engine'.pc = "done") =>
         /\ Len(df) > 0
         /\ engine'.current_position = 0
         /\ engine'.entry_price = RatOf(0)
         /\ Len(engine'.trades) > 0 => Last(engine'.trades).action = "SELL"
         /\ IF engine.current_position = 1
            THEN /\ Len(engine'.trades) = Len(engine.trades) + 1
                 /\ SubSeq(engine'.trades, 1, Len(engine.trades)) = engine.trades
                 /\ Last(engine'.trades).date = Len(df)
                 /\ NearestCent(Last(engine'.trades).price,
                                CostAdjustedSell(df[Len(df)]))
                 /\ engine'.winning_trades + engine'.losing_trades
                        = engine'.total_trades
            ELSE engine'.trades = engine.trades
         /\ call'.op = "run" /\ call'.ret.kind = "return"]_vars

\* a run has completed whose position was open after the last day
C11_Witness ==
    /\ engine.pc = "done"
    /\ Len(engine.trades) > 0
    /\ Last(engine.trades).date = Len(df)
    /\ RLt(Last(engine.equity_curve).equity, RatOf(engine.initial_capital))
    /\ engine.current_position = 0

\* the entry price a SELL record k of the trades closes: the fill of the
\* BUY record before it
EntryOf(trades, k) == CostAdjustedBuy(df[trades[k - 1].date])

(***************************************************************************)
(* C13: every trade record a step of run() appends is a fill at the close  *)
(* of its day plus (BUY) or minus (SELL) (COMMISSION_RATE + SLIPPAGE)      *)
(* times that close: the record carries that price to the cent, a BUY      *)
(* makes it the entry price, a SELL (stop-loss, take-profit or forced)     *)
(* records the profit of that price over the entry price and counts a win  *)
(* exactly when it is above the entry price.  The buy price is above and   *)
(* the sell price below the close, and a position sold at the close it was *)
(* bought at counts as a losing trade.                                     *)
(***************************************************************************)
C13_FillsAreCostAdjusted ==
    [][engine.pc = "loop" =>
         /\ Len(engine'.trades) >= Len(engine.trades)
         /\ SubSeq(engine'.trades, 1, Len(engine.trades)) = engine.trades
         /\ \A k \in (Len(engine.trades) + 1)..Len(engine'.trades) :
              LET rec   == engine'.trades[k]
                  close == df[rec.date]
                  buy   == CostAdjustedBuy(close)
                  sell  == CostAdjustedSell(close)
              IN  /\ rec.date = engine'.i
                  /\ rec.action \in {"BUY", "SELL"}
                  /\ RGt(buy, RatOf(close)) /\ RLt(sell, RatOf(close))
                  /\ rec.action = "BUY" =>
                       /\ NearestCent(rec.price, buy)
                       /\ k = Len(engine'.trades)
                       /\ engine'.entry_price = buy
                       /\ engine'.current_position = 1
                  /\ rec.action = "SELL" =>
                       /\ NearestCent(rec.price, sell)
                       /\ k = Len(engine.trades) + 1
                       /\ k > 1 /\ engine.trades[k - 1].action = "BUY"
                       /\ engine.entry_price = EntryOf(engine'.trades, k)
                       /\ NearestCent(rec.profit_pct,
                              RMul(RatOf(100),
                                   RDiv(RSub(sell, engine.entry_price),
                                        engine.entry_price)))
                       /\ IF RGt(sell, engine.entry_price)
                          THEN /\ engine'.winning_trades = engine.winning_trades + 1
                               /\ engine'.losing_trades = engine.losing_trades
                          ELSE /\ engine'.winning_trades = engine.winning_trades
                               /\ engine'.losing_trades = engine.losing_trades + 1
                       /\ df[engine.trades[k - 1].date] = close =>
                              engine'.losing_trades = engine.losing_trades + 1]_vars

\* a completed run whose last position was sold at the close it was
\* bought at, and counted as a loss
C13_Witness ==
    /\ engine.pc = "done"
    /\ Len(engine.trades) >= 2
    /\ Last(engine.trades).action = "SELL"
    /\ df[engine.trades[Len(engine.trades) - 1].date] = df[Last(engine.trades).date]
    /\ engine.losing_trades >= 1

RECURSIVE LedgerAfter(_, _)
\* cash and held quantity after the first k trade records, from the
\* initial capital: a BUY pays shares * fill, a SELL of the whole position
\* receives quantity * fill
LedgerAfter(trades, k) ==
    IF k = 0 THEN [cash |-> RatOf(InitialCapital), qty |-> 0]
    ELSE LET before == LedgerAfter(trades, k - 1)
             rec    == trades[k]
         IN  IF rec.action = "BUY"
             THEN [cash |-> RSub(before.cash,
                                 RMul(RatOf(rec.shares),
                                      CostAdjustedBuy(df[rec.date]))),
                   qty  |-> before.qty + rec.shares]
             ELSE [cash |-> RAdd(before.cash,
                                 RMul(RatOf(before.qty),
                                      CostAdjustedSell(df[rec.date]))),
                   qty  |-> 0]

(***************************************************************************)
(* C12: the equity point a pass of the loop appends is cash plus held      *)
(* quantity times the day's close, in the state after the day's trades:    *)
(* on a FLAT day the initial capital plus the realized profit or loss of   *)
(* the closed trades, on a LONG day the un-invested cash plus the value of *)
(* the shares.                                                             *)
(***************************************************************************)
C12_EquityIsMarkToMarket ==
    [][(engine.pc = "loop" /\ engine'.pc = "loop") =>
         LET ledger == LedgerAfter(engine'.trades, Len(engine'.trades))
             point  == Last(engine'.equity_curve)
         IN  /\ Len(engine'.equity_curve) = Len(engine.equity_curve) + 1
             /\ point.date = engine'.i
             /\ point.equity = RAdd(ledger.cash,
                                    RMul(RatOf(ledger.qty),
                                         RatOf(df[point.date])))]_vars

(***************************************************************************)
(* C20: a report is returned without an error; its win_rate is             *)
(* winning_trades / total_trades as a percentage (to the hundredth), and 0 *)
(* when no trade was made; with no equity point recorded the result of     *)
(* generate_report is empty, and a report that is not empty counts at      *)
(* least one trading day.                                                  *)
(***************************************************************************)
C20_WinRateAndEmptyReport ==
    (call.op \in {"run", "generate_report"} /\ engine.pc \in {"new", "done"}) =>
        /\ call.ret.kind = "return"
        /\ IF Len(engine.equity_curve) = 0
           THEN DOMAIN call.ret.value = {}
           ELSE LET report == call.ret.value
                IN  /\ DOMAIN report # {}
                    /\ report.period.trading_days = Len(engine.equity_curve)
                    /\ report.period.trading_days > 0
                    /\ report.trading.total_trades = engine.total_trades
                    /\ report.trading.winning_trades = engine.winning_trades
                    /\ IF engine.total_trades = 0
                       THEN report.trading.win_rate = RatOf(0)
                       ELSE NearestCent(report.trading.win_rate,
                                RMul(RatOf(100),
                                     Frac(engine.winning_trades,
                                          engine.total_trades)))

\* run() has returned the report of a run that made no trade
C20_Witness ==
    /\ call.op = "run"
    /\ engine.pc = "done"
    /\ call.ret.kind = "return"
    /\ engine.total_trades = 0
    /\ call.ret.value.trading.win_rate = RatOf(0)

RECURSIVE RunLoop(_, _)
\* the engine of a run on the series close after t passes of the loop
RunLoop(close, t) ==
    IF t = 0
    THEN [NewEngine EXCEPT !.pc = "loop", !.frame = calculate_indicators(close)]
    ELSE run_day(RunLoop(close, t - 1), close, t)

\* the engine of a completed run on the series close
RunComplete(close) == force_close(RunLoop(close, Len(close)), close)

\* the bars up to and including day t
BarsUpTo(t) == SubSeq(df, 1, t)

(***************************************************************************)
(* C19 as stated: after day t of a run on a series with later bars, the    *)
(* indicator rows, the equity points and the trade records up to and       *)
(* including day t are those of the run on the series that ends with day   *)
(* t.                                                                      *)
(***************************************************************************)
C19_IdenticalUpToDay ==
    (engine.pc = "loop" /\ engine.i >= 1 /\ engine.i < Len(df)) =>
        LET t     == engine.i
            other == RunComplete(BarsUpTo(t))
        IN  /\ SubSeq(engine.frame, 1, t) = other.frame
            /\ engine.equity_curve = other.equity_curve
            /\ engine.trades = other.trades

(***************************************************************************)
(* C19, amended: what the loop of run() computes for day t depends only on *)
(* the bars up to t.  After day t of a run, the indicator rows up to t,    *)
(* the regime detected and the signal taken on day t, the equity points,   *)
(* the trade records of the loop, the position and the entry price are     *)
(* those of the loop of the run on the series that ends with day t.  The   *)
(* forced SELL at the end of a series is outside this: a run records it on *)
(* its own last day, and a run on a longer series does not.                *)
(***************************************************************************)
C19_NoLookAhead ==
    (engine.pc = "loop" /\ engine.i >= 1) =>
        LET t     == engine.i
            other == RunLoop(BarsUpTo(t), t)
        IN  /\ SubSeq(engine.frame, 1, t) = other.frame
            /\ MarketRegimeDetector_detect(subset(df, t - 1))
                   = MarketRegimeDetector_detect(subset(BarsUpTo(t), t - 1))
            /\ BacktestEngine_get_signal(df, t - 1)
                   = BacktestEngine_get_signal(BarsUpTo(t), t - 1)
            /\ engine.equity_curve = other.equity_curve
            /\ engine.trades = other.trades
            /\ engine.current_position = other.current_position
            /\ engine.entry_price = other.entry_price

\* a run that has traded and has bars after the day it has reached, the
\* next of them at another close
C19_Witness ==
    /\ engine.pc = "loop"
    /\ engine.i >= 1 /\ engine.i < Len(df)
    /\ df[engine.i + 1] # df[engine.i]
    /\ Len(engine.trades) >= 1
    /\ engine.current_position = 1

VolatilityDefined(close) == Len(close) - 1 >= DetectWindow

(***************************************************************************)
(* C25: detect returns the mean-reverting regime whenever the rolling      *)
(* volatility of the returns cannot be computed at the last row, a series  *)
(* of exactly DetectWindow bars (one return short of the window) included. *)
(***************************************************************************)
C25_InsufficientHistoryIsMeanReverting ==
    (call.op = "MarketRegimeDetector.detect" /\ ~VolatilityDefined(df)) =>
        call.ret = Returned("mean_reversion")

\* the higher of the two means is defined and the short one is above it
ShortMeanAbove(close) ==
    LET short == rolling_mean(close, DetectWindow, Len(close))
        long  == rolling_mean(close, DetectLongWindow, Len(close))
    IN  ~IsNaN(short) /\ ~IsNaN(long) /\ RGt(short, long)

C24_WeightsFoldedWithoutAdvisory ==
    (/\ call.op = "get_ensemble_signal"
     /\ call.self.llm_strategy.api_key = ""
     /\ call.ret.kind = "return") =>
        LET r == call.ret.value
        IN  /\ FPlus(r.weights.trend, r.weights.reversion) = FLit(10)
            /\ (r.trend_signal = "BUY" /\ r.reversion_signal = "BUY")
                   => r.score = FLit(10)

\* what the strategies and the detector say on the rows up to Python index i
TrendAt(i)     == TrendStrategy_get_signal(DefaultTrend, SubSeq(df, 1, i + 1))
ReversionAt(i) ==
    MeanReversionStrategy_get_signal(DefaultReversion, SubSeq(df, 1, i + 1))
RegimeAt(i)    == MarketRegimeDetector_detect(SubSeq(df, 1, i + 1))

\* ten times the score of the simulation path, from the decimal weights
EngineScoreTenths(i) ==
    IF RegimeAt(i) \in {"trend_up", "trend_down"}
    THEN 7 * Strength(TrendAt(i)) + 3 * Strength(ReversionAt(i))
    ELSE 2 * Strength(TrendAt(i)) + 8 * Strength(ReversionAt(i))

(***************************************************************************)
(* C27: BacktestEngine.get_signal answers HOLD for every index below the   *)
(* warm-up; from there on BUY exactly when the score is above 0.5 and SELL *)
(* exactly when it is below -0.5, the score being 0.7 trend + 0.3          *)
(* reversion in the trend regimes and 0.2 trend + 0.8 reversion in the     *)
(* mean-reverting one.  So BUY in a trend regime exactly when the trend    *)
(* signal is BUY and the reversion signal is not SELL, and in the          *)
(* mean-reverting regime exactly when the reversion signal is BUY.         *)
(***************************************************************************)
C27_EngineSignalThreshold ==
    call.op = "BacktestEngine.get_signal" =>
        LET i      == call.i
            answer == call.ret.value
        IN  /\ call.ret.kind = "return"
            /\ i < WarmUp => answer = "HOLD"
            /\ i >= WarmUp =>
                 /\ answer = "BUY" <=> EngineScoreTenths(i) > 5
                 /\ answer = "SELL" <=> EngineScoreTenths(i) < -5
                 /\ answer \in {"BUY", "SELL", "HOLD"}
                 /\ answer = "BUY" <=>
                      IF RegimeAt(i) \in {"trend_up", "trend_down"}
                      THEN TrendAt(i) = "BUY" /\ ReversionAt(i) # "SELL"
                      ELSE ReversionAt(i) = "BUY"

\* past the warm-up, in a trend regime, a trend BUY held back by a
\* reversion SELL (score 0.4)
C27_Witness ==
    /\ call.op = "BacktestEngine.get_signal"
    /\ call.i >= WarmUp
    /\ RegimeAt(call.i) \in {"trend_up", "trend_down"}
    /\ TrendAt(call.i) = "BUY"
    /\ ReversionAt(call.i) = "SELL"
    /\ call.ret = Returned("HOLD")

\* the highest close of the days from..to
HighestClose(from, to) ==
    CHOOSE m \in {df[k] : k \in from..to} : \A k \in from..to : df[k] <= m

\* the gain of an open position at the close of day d
GainAt(e, d) == RDiv(RSub(RatOf(df[d]), e.entry_price), e.entry_price)

\* the close of day d has pulled back from the highest close since the
\* entry of the open position to the trailing stop or below
ClosePulledBack(e, d) ==
    RLe(RatOf(df[d]),
        RMul(RatOf(HighestClose(Last(e.trades).date, d)),
             RSub(ROne, TRAILING_STOP)))

(***************************************************************************)
(* C21: on a day of the loop where the gain of the open position at the    *)
(* close has reached TAKE_PROFIT and the close has not pulled back to the  *)
(* highest close since entry times (1 - TRAILING_STOP) or below, nothing   *)
(* is sold and the position stays open.                                    *)
(***************************************************************************)
C21_TakeProfitNeedsPullback ==
    [][(/\ engine.pc = "loop" /\ engine'.pc = "loop"
        /\ engine.current_position = 1
        /\ RGe(GainAt(engine, engine'.i), TAKE_PROFIT)
        /\ ~ClosePulledBack(engine, engine'.i)) =>
           /\ engine'.trades = engine.trades
           /\ engine'.current_position = 1
           /\ engine'.entry_price = engine.entry_price]_vars

\* the trade records a step has appended
NewRecords == SubSeq(engine'.trades, Len(engine.trades) + 1, Len(engine'.trades))

\* the risk exit of day d applies to the open position of e: the gain at
\* the close is at the stop-loss or below, or at the take-profit or above
RiskExitAt(e, d) ==
    /\ e.current_position = 1
    /\ \/ RLe(GainAt(e, d), STOP_LOSS)
       \/ RGe(GainAt(e, d), TAKE_PROFIT)

\* 30% of the capital buys at least one share at the close of day d
AffordsShare(e, d) ==
    RGe(RMul(RatOf(e.initial_capital), Frac(3, 10)), CostAdjustedBuy(df[d]))

(***************************************************************************)
(* C22: on every day of the loop the risk exit of an open position is      *)
(* applied before the entry is considered.  The records of one day are at  *)
(* most a SELL followed by a BUY: when the exit sells, the entry decision  *)
(* of that day is taken FLAT and may buy again; a BUY of the day is the    *)
(* day's last record, so no exit closes it that day.  In the whole log a   *)
(* SELL dated as the BUY before it is the last record, dated the last day  *)
(* of the series, in a run that has completed (the forced liquidation).    *)
(***************************************************************************)
C22_ExitBeforeEntry ==
    [][(engine.pc = "loop" /\ engine'.pc \in {"loop", "done"}) =>
         /\ engine'.pc = "loop" =>
              LET d   == engine'.i
                  new == NewRecords
                  buy == /\ BacktestEngine_get_signal(df, d - 1) = "BUY"
                         /\ AffordsShare(engine, d)
              IN  /\ \A k \in 1..Len(new) : new[k].date = d
                  /\ IF RiskExitAt(engine, d)
                     THEN /\ Len(new) >= 1 /\ new[1].action = "SELL"
                          /\ Len(new) = IF buy THEN 2 ELSE 1
                          /\ buy => new[2].action = "BUY"
                     ELSE IF engine.current_position = 1
                     THEN new = <<>>
                     ELSE /\ Len(new) = IF buy THEN 1 ELSE 0
                          /\ buy => new[1].action = "BUY"
         /\ \A k \in 2..Len(engine'.trades) :
              (/\ engine'.trades[k].action = "SELL"
               /\ engine'.trades[k - 1].date = engine'.trades[k].date) =>
                  /\ engine'.pc = "done"
                  /\ k = Len(engine'.trades)
                  /\ engine'.trades[k].date = Len(df)]_vars

\* a day of the loop on which the exit sold and the entry bought again
C22_Witness ==
    /\ engine.pc = "loop"
    /\ Len(engine.trades) >= 3
    /\ Last(engine.trades).action = "BUY"
    /\ engine.trades[Len(engine.trades) - 1].action = "SELL"
    /\ engine.trades[Len(engine.trades) - 1].date = Last(engine.trades).date
    /\ engine.current_position = 1

\* the trade log of e alternates BUY, SELL, BUY, ... from a BUY, and the
\* counters agree with it and with the position
LogConsistent(e) ==
    /\ \A k \in 1..Len(e.trades) :
           e.trades[k].action = IF k % 2 = 1 THEN "BUY" ELSE "SELL"
    /\ e.current_position \in {0, 1}
    /\ e.total_trades - (e.winning_trades + e.losing_trades) = e.current_position
    /\ Len(e.trades) = 2 * e.total_trades - e.current_position
    /\ e.winning_trades >= 0 /\ e.losing_trades >= 0

(***************************************************************************)
(* C28: throughout run() the trade log alternates BUY, SELL, BUY, ...      *)
(* from a BUY, current_position is 0 or 1 and total_trades -               *)
(* (winning_trades + losing_trades) = current_position; when run() has     *)
(* finished every trade is counted as won or lost and the log holds as     *)
(* many SELL as BUY records.  A FLAT day whose signal is BUY but whose     *)
(* capital affords no share, and a FLAT day whose signal is SELL, leave    *)
(* the log, the counters and the position as they were.                    *)
(***************************************************************************)
C28_TradeLogAlternates ==
    [][engine.pc \in {"new", "loop"} =>
         /\ LogConsistent(engine)
         /\ LogConsistent(engine')
         /\ engine'.pc = "done" =>
              /\ engine'.winning_trades + engine'.losing_trades
                     = engine'.total_trades
              /\ Len(engine'.trades) = 2 * engine'.total_trades
              /\ engine'.current_position = 0
         /\ (/\ engine.pc = "loop" /\ engine'.pc = "loop"
             /\ engine.current_position = 0
             /\ LET signal == BacktestEngine_get_signal(df, engine'.i - 1)
                IN  \/ signal = "SELL"
                    \/ signal = "BUY" /\ ~AffordsShare(engine, engine'.i)) =>
                /\ engine'.trades = engine.trades
                /\ engine'.current_position = 0
                /\ engine'.entry_price = engine.entry_price
                /\ engine'.total_trades = engine.total_trades
                /\ engine'.winning_trades = engine.winning_trades
                /\ engine'.losing_trades = engine.losing_trades]_vars

\* a FLAT day whose BUY signal afforded no share and recorded nothing
C28_Witness ==
    /\ engine.pc = "loop"
    /\ engine.i >= 1
    /\ BacktestEngine_get_signal(df, engine.i - 1) = "BUY"
    /\ ~AffordsShare(engine, engine.i)
    /\ engine.trades = <<>>
    /\ engine.current_position = 0
    /\ engine.total_trades = 0

(***************************************************************************)
(* C29: the signal of a day acts only on a FLAT engine.  On a day of the   *)
(* loop that begins LONG, the position is closed exactly when the          *)
(* stop-loss or the take-profit check applies; otherwise the log, the      *)
(* position and the entry price stay as they were, whatever the signal of  *)
(* the day says, SELL included.  The only other SELL is the forced one at  *)
(* the end of the series.                                                  *)
(***************************************************************************)
C29_SignalNeverClosesPosition ==
    [][(engine.pc = "loop" /\ engine.current_position = 1) =>
         IF engine'.pc = "loop"
         THEN IF RiskExitAt(engine, engine'.i)
              THEN /\ Len(NewRecords) >= 1
                   /\ NewRecords[1].action = "SELL"
              ELSE /\ engine'.trades = engine.trades
                   /\ engine'.current_position = 1
                   /\ engine'.entry_price = engine.entry_price
         ELSE /\ engine.i = Len(df)
              /\ Len(NewRecords) = 1
              /\ NewRecords[1].action = "SELL"
              /\ NewRecords[1].date = Len(df)]_vars

\* a position that stayed open through a day whose signal was SELL
C29_Witness ==
    /\ engine.pc = "loop"
    /\ engine.current_position = 1
    /\ Last(engine.trades).date < engine.i
    /\ BacktestEngine_get_signal(df, engine.i - 1) = "SELL"

\* the smaller of two integers
MinOf(a, b) == IF a <= b THEN a ELSE b

(***************************************************************************)
(* C23: when a pass of the loop opens a position, the shares of the BUY    *)
(* record are the Risk Manager's position size for the strength of the     *)
(* day's score, the regime detected that day and the cash then available,  *)
(* divided by the cost-adjusted fill price, and at most what that cash     *)
(* pays for.                                                               *)
(***************************************************************************)
C23_SharesFromRiskManager ==
    [][(/\ engine.pc = "loop" /\ engine'.pc = "loop"
        /\ Len(NewRecords) >= 1
        /\ Last(NewRecords).action = "BUY") =>
           LET d        == engine'.i
               rec      == Last(NewRecords)
               fill     == CostAdjustedBuy(df[d])
               cashThen == LedgerAfter(engine'.trades,
                                       Len(engine'.trades) - 1).cash
               strength == Frac(Abs(EngineScoreTenths(d - 1)), 10)
               size     == calculate_position_size(rm, strength,
                                                   RegimeAt(d - 1), cashThen)
           IN  /\ rec.shares = MinOf(IntOf(RDiv(size, fill)),
                                     IntOf(RDiv(cashThen, fill)))
               /\ RLe(RMul(RatOf(rec.shares), fill), cashThen)]_vars

====
